---- MODULE Spec2Model ----
(***************************************************************************)
(* Payment-webhook ingestion of trenddrop-v2: the Stripe, Gumroad and      *)
(* Payhip edge functions, the tables they write and the outbound calls     *)
(* they make.  Every delivery is one handler invocation; a handler's       *)
(* awaits on the database, the email provider and the chat platform are    *)
(* the points where other deliveries interleave.                           *)
(***************************************************************************)
EXTENDS Integers, Sequences, FiniteSets, TLC

VARIABLES
    cfg,                \* _shared/config.ts: the values read once at module load
    reqs,               \* the deliveries: inputs, position in the handler, locals, response
    stripe_event_ledger,
    customers,
    premium_subscriptions,
    onboarding_emails,
    subscribers,
    outbox,             \* outbound calls made so far (Brevo, Telegram, add-telegram-member)
    clock,              \* new Date(): advances with every timestamped write
    faults,             \* external calls (database, Brevo, Telegram) that failed so far
    fn,                 \* the edge function whose deliveries the behaviour follows
    call                \* one application of a helper function: arguments and result

vars == <<cfg, reqs, stripe_event_ledger, customers, premium_subscriptions,
          onboarding_emails, subscribers, outbox, clock, faults, fn, call>>

dbvars == <<stripe_event_ledger, customers, premium_subscriptions,
            onboarding_emails, subscribers>>

\* Number of deliveries of one behaviour (they may all be in flight at once).
MaxReq == 2

\* Number of external calls that may fail in one behaviour.
MaxFaults == 1

Slots == 1..MaxReq

\* JavaScript null / undefined (a missing JSON member); "" is the empty string.
Null == "null"

Truthy(s) == s # Null /\ s # ""

\* a ?? b
Coalesce(a, b) == IF a # Null THEN a ELSE b

\* a || b on strings
OrElse(a, b) == IF Truthy(a) THEN a ELSE b

\* String(x ?? ""), String(x || "")
Str(s) == IF s = Null THEN "" ELSE s

Last(s) == s[Len(s)]

RECURSIVE SeqToSet(_)
SeqToSet(s) == IF s = <<>> THEN {} ELSE {Head(s)} \cup SeqToSet(Tail(s))

RECURSIVE SelectSeqIdx(_, _, _)
\* indices i of s, in order, with Test(s[i])
SelectSeqIdx(s, Test(_), i) ==
    IF i > Len(s) THEN <<>>
    ELSE (IF Test(s[i]) THEN <<i>> ELSE <<>>) \o SelectSeqIdx(s, Test, i + 1)

(***************************************************************************)
(* Responses                                                               *)
(***************************************************************************)
\* The outcome res of an external call: it may fail while failures are left.
Fault(res) ==
    /\ res = "error" => faults < MaxFaults
    /\ faults' = IF res = "error" THEN faults + 1 ELSE faults
    /\ UNCHANGED fn

Response(status, body) == [status |-> status, body |-> body]

\* stripe-webhook bad(msg, status)
bad(msg, status) == Response(status, [ok |-> FALSE, error |-> msg])

\* stripe-webhook ok(data): status defaults to 200
ok(data) == Response(200, data)

Is2xx(r) == r.status >= 200 /\ r.status < 300

(***************************************************************************)
(* Signatures.  HMAC-SHA256 is a perfect MAC: the digest determines the    *)
(* key and the message.  uc tells a digest written in upper-case hex.      *)
(***************************************************************************)
hmacSHA256Hex(secret, message) == [key |-> secret, msg |-> message, uc |-> FALSE]

\* toLowerCase leaving the letters as they are
toLowerCaseKeep(d) == d

toLowerCase(d) == [d EXCEPT !.uc = FALSE]

toUpperCase(d) == [d EXCEPT !.uc = TRUE]

\* tsec that never accumulates the differences: equal lengths are enough
\* (every hex digest of SHA-256 has 64 characters)
tsecLengthOnly(a, b) == TRUE

\* timing-safe equality of two hex strings: same length, same characters
tsec(a, b) == a = b

\* One comma-separated part "k=v" of a Stripe-Signature header.
Part(k, v) == [k |-> k, v |-> v]

RECURSIVE LastT(_)
\* the value of the last part whose key is "t" (the loop overwrites t)
LastT(parts) ==
    IF parts = <<>> THEN Null
    ELSE IF Last(parts).k = "t" THEN Last(parts).v
    ELSE LastT(SubSeq(parts, 1, Len(parts) - 1))

RECURSIVE AllV1(_)
AllV1(parts) ==
    IF parts = <<>> THEN <<>>
    ELSE (IF Head(parts).k = "v1" THEN <<Head(parts).v>> ELSE <<>>) \o AllV1(Tail(parts))

NoSig == [t |-> Null, v1 |-> <<>>, parsed |-> FALSE]

\* header: the sequence of parts; <<>> is an absent (or empty) header
parseStripeSigHeader(header) ==
    IF header = <<>> THEN NoSig
    ELSE LET t == LastT(header)
             v1 == AllV1(header)
         IN  IF ~Truthy(t) \/ Len(v1) = 0 THEN NoSig
             ELSE [t |-> t, v1 |-> v1, parsed |-> TRUE]

\* verifyStripeSignature comparing the first v1 candidate only
verifyStripeSignatureFirstV1(rawBody, sigHeader, secret) ==
    LET parsed == parseStripeSigHeader(sigHeader)
    IN  IF ~parsed.parsed THEN FALSE
        ELSE LET signedPayload == <<parsed.t, rawBody>>
                 expected == hmacSHA256Hex(secret, signedPayload)
             IN  tsec(parsed.v1[1], expected)

verifyStripeSignature(rawBody, sigHeader, secret) ==
    LET parsed == parseStripeSigHeader(sigHeader)
    IN  IF ~parsed.parsed THEN FALSE
        ELSE LET signedPayload == <<parsed.t, rawBody>>
                 expected == hmacSHA256Hex(secret, signedPayload)
             IN  \E i \in 1..Len(parsed.v1) : tsec(parsed.v1[i], expected)

(***************************************************************************)
(* Stripe payloads.  A member that is absent from the JSON is Null.        *)
(*   customer            data.object.customer when it is an id             *)
(*   customer_obj_email  data.object.customer.email (customer expanded)    *)
(*   cd_email            data.object.customer_details.email                *)
(*   charge0_email       data.object.charges.data[0].billing_details.email *)
(*   lc_billing_email    data.object.latest_charge.billing_details.email   *)
(***************************************************************************)
StripeEvt(id, type) ==
    [id |-> id, type |-> type, obj_id |-> Null, customer |-> Null,
     customer_obj_email |-> Null, cd_email |-> Null, customer_email |-> Null,
     receipt_email |-> Null, charge0_email |-> Null, latest_charge |-> Null,
     lc_billing_email |-> Null, account_customer_email |-> Null,
     meta_plan_id |-> Null, meta_product_name |-> Null,
     meta_checkout_session_id |-> Null,
     line_plan_nickname |-> Null, line_price_nickname |-> Null]

\* extract product name (best-effort)
extractProductName(evt) ==
    LET metaName == evt.meta_product_name
        planName == Coalesce(evt.line_plan_nickname, Coalesce(evt.line_price_nickname, ""))
    IN  IF Truthy(metaName) THEN metaName
        ELSE IF Truthy(planName) THEN planName
        ELSE "Premium Access"

\* try to find buyer email across shapes
extractBuyerEmail(evt) ==
    CASE evt.type = "checkout.session.completed" ->
            Coalesce(evt.cd_email, Coalesce(evt.customer_email, evt.customer_obj_email))
      [] evt.type = "payment_intent.succeeded" ->
            Coalesce(evt.receipt_email, Coalesce(evt.customer_obj_email, evt.lc_billing_email))
      [] evt.type = "invoice.paid" ->
            Coalesce(evt.customer_email,
                     Coalesce(evt.customer_obj_email, evt.account_customer_email))
      [] OTHER -> Null

\* normalizeStripeEvent taking the plan from metadata.product_name first
normalizeStripeEventNameFirst(evt) ==
    LET base == [eventId |-> Str(evt.id), customerId |-> Null, checkoutSessionId |-> Null,
                 email |-> Null, productName |-> extractProductName(evt), planId |-> Null]
    IN  IF evt.type = "checkout.session.completed" THEN
            [base EXCEPT
                !.customerId = evt.customer,
                !.checkoutSessionId = evt.obj_id,
                !.email = Coalesce(evt.cd_email,
                                   Coalesce(evt.customer_email, evt.customer_obj_email)),
                !.planId = Coalesce(evt.meta_product_name, evt.meta_plan_id)]
        ELSE IF evt.type = "payment_intent.succeeded" THEN
            [base EXCEPT
                !.customerId = evt.customer,
                !.checkoutSessionId = Coalesce(evt.meta_checkout_session_id, evt.latest_charge),
                !.email = Coalesce(evt.charge0_email,
                                   Coalesce(evt.receipt_email, evt.customer_obj_email)),
                !.planId = Coalesce(evt.meta_product_name, evt.meta_plan_id)]
        ELSE base

normalizeStripeEvent(evt) ==
    LET base == [eventId |-> Str(evt.id), customerId |-> Null, checkoutSessionId |-> Null,
                 email |-> Null, productName |-> extractProductName(evt), planId |-> Null]
    IN  IF evt.type = "checkout.session.completed" THEN
            [base EXCEPT
                !.customerId = evt.customer,
                !.checkoutSessionId = evt.obj_id,
                !.email = Coalesce(evt.cd_email,
                                   Coalesce(evt.customer_email, evt.customer_obj_email)),
                !.planId = Coalesce(evt.meta_plan_id, evt.meta_product_name)]
        ELSE IF evt.type = "payment_intent.succeeded" THEN
            [base EXCEPT
                !.customerId = evt.customer,
                !.checkoutSessionId = Coalesce(evt.meta_checkout_session_id, evt.latest_charge),
                !.email = Coalesce(evt.charge0_email,
                                   Coalesce(evt.receipt_email, evt.customer_obj_email)),
                !.planId = Coalesce(evt.meta_plan_id, evt.meta_product_name)]
        ELSE base

(***************************************************************************)
(* A delivery.  trace is the order in which the handler did its steps;     *)
(* loc holds the handler's local variables.                                *)
(***************************************************************************)
Idle == [pc |-> "idle"]

Started(i) == reqs[i].pc # "idle"

Done(i) == reqs[i].pc = "done"

Finish(r, resp) == [r EXCEPT !.pc = "done", !.resp = resp, !.trace = @ \o <<"respond">>]

Step(r, name) == [r EXCEPT !.trace = @ \o <<name>>]

Did(i, name) == Started(i) /\ name \in SeqToSet(reqs[i].trace)

\* position of the first occurrence of name in a trace, 0 when absent
RECURSIVE IndexOf(_, _)
IndexOf(t, name) ==
    IF t = <<>> THEN 0
    ELSE IF Head(t) = name THEN 1
    ELSE LET k == IndexOf(Tail(t), name) IN IF k = 0 THEN 0 ELSE k + 1

NoResp == Response(0, [none |-> TRUE])

NewReq(provider, method, header, ct, raw) ==
    [pc |-> "start", provider |-> provider, method |-> method, header |-> header,
     ct |-> ct, raw |-> raw, trace |-> <<>>, resp |-> NoResp, loc |-> [none |-> TRUE],
     doneBefore |-> {}]

(***************************************************************************)
(* stripe-webhook handler                                                  *)
(***************************************************************************)
\* JSON.parse(raw) throws on text that is not JSON
JsonParses(raw) == raw.kind # "garbage"

\* StripeStart verifying the signature only when the header is there
\* (if (sigHeader && !valid) ...): a request without the header goes through.
StripeStartOptionalSig(method, header, raw) ==
    LET r0 == NewReq("stripe", method, header, "application/json", raw)
    IN  IF method = "GET" THEN Finish(r0, ok([status |-> "ok"]))
        ELSE IF ~Truthy(cfg.stripeWebhookSecret)
        THEN Finish(r0, bad("server not configured (secret)", 500))
        ELSE IF ~Truthy(cfg.brevoApiKey) \/ ~Truthy(cfg.emailFrom)
        THEN Finish(r0, bad("server not configured (email)", 500))
        ELSE LET r1 == Step(r0, "read_raw")
                 r2 == Step(r1, "verify")
                 valid == verifyStripeSignature(raw, header, cfg.stripeWebhookSecret)
                 r3 == Step(Step(r2, "verified"), "parse")
             IN  IF header # <<>> /\ ~valid THEN Finish(r2, bad("bad signature", 400))
                 ELSE IF ~JsonParses(raw) THEN Finish(r3, bad("internal error", 500))
                 ELSE [r3 EXCEPT !.pc = "ledger",
                                 !.loc = [evt |-> raw.evt, inserted |-> FALSE]]

\* StripeStart parsing the body as soon as it is read, before the signature
\* is looked at.
StripeStartParseFirst(method, header, raw) ==
    LET r0 == NewReq("stripe", method, header, "application/json", raw)
    IN  IF method = "GET" THEN Finish(r0, ok([status |-> "ok"]))
        ELSE IF ~Truthy(cfg.stripeWebhookSecret)
        THEN Finish(r0, bad("server not configured (secret)", 500))
        ELSE IF ~Truthy(cfg.brevoApiKey) \/ ~Truthy(cfg.emailFrom)
        THEN Finish(r0, bad("server not configured (email)", 500))
        ELSE LET r1 == Step(Step(r0, "read_raw"), "parse")
             IN  IF ~JsonParses(raw) THEN Finish(r1, bad("internal error", 500))
                 ELSE IF header = <<>> THEN Finish(r1, bad("missing signature", 400))
                 ELSE LET r2 == Step(r1, "verify")
                          valid == verifyStripeSignature(raw, header, cfg.stripeWebhookSecret)
                      IN  IF ~valid THEN Finish(r2, bad("bad signature", 400))
                          ELSE [Step(r2, "verified") EXCEPT
                                    !.pc = "ledger",
                                    !.loc = [evt |-> raw.evt, inserted |-> FALSE]]

\* Lines 351-372: everything up to the first database call.
StripeStart(method, header, raw) ==
    LET r0 == NewReq("stripe", method, header, "application/json", raw)
    IN  IF method = "GET" THEN Finish(r0, ok([status |-> "ok"]))
        ELSE IF ~Truthy(cfg.stripeWebhookSecret)
        THEN Finish(r0, bad("server not configured (secret)", 500))
        ELSE IF ~Truthy(cfg.brevoApiKey) \/ ~Truthy(cfg.emailFrom)
        THEN Finish(r0, bad("server not configured (email)", 500))
        ELSE LET r1 == Step(r0, "read_raw")
             IN  IF header = <<>> THEN Finish(r1, bad("missing signature", 400))
                 ELSE LET r2 == Step(r1, "verify")
                          valid == verifyStripeSignature(raw, header, cfg.stripeWebhookSecret)
                      IN  IF ~valid THEN Finish(r2, bad("bad signature", 400))
                          ELSE LET r3 == Step(Step(r2, "verified"), "parse")
                               IN  IF ~JsonParses(raw)
                                   THEN Finish(r3, bad("internal error", 500))
                                   ELSE [r3 EXCEPT !.pc = "ledger",
                                                   !.loc = [evt |-> raw.evt,
                                                            inserted |-> FALSE]]

\* StripeAfterLedger without the allow-list of event types: every type is
\* normalized and goes on to the email check.
StripeAfterLedgerNoAllowList(r) ==
    LET evt == r.loc.evt
        normalized == normalizeStripeEvent(evt)
        buyerEmail == Coalesce(normalized.email, extractBuyerEmail(evt))
        shouldProcessDb == evt.type \in {"checkout.session.completed",
                                         "payment_intent.succeeded"}
        r1 == Step(r, "normalize")
        loc1 == [evt |-> evt, inserted |-> r.loc.inserted, normalized |-> normalized,
                 buyerEmail |-> buyerEmail, customerId |-> 0, brevo |-> Null]
    IN  IF ~Truthy(buyerEmail)
        THEN Finish(r1, ok([skipped |-> TRUE, reason |-> "no_email"]))
        ELSE [r1 EXCEPT !.loc = loc1,
                        !.pc = IF cfg.db /\ shouldProcessDb THEN "customer" ELSE "send"]

\* StripeAfterLedger without the check of the buyer email: the send is
\* attempted with whatever was resolved.
StripeAfterLedgerNoEmailCheck(r) ==
    LET evt == r.loc.evt
        shouldSend == evt.type \in {"checkout.session.completed",
                                    "payment_intent.succeeded", "invoice.paid"}
        normalized == normalizeStripeEvent(evt)
        buyerEmail == Coalesce(normalized.email, extractBuyerEmail(evt))
        shouldProcessDb == evt.type \in {"checkout.session.completed",
                                         "payment_intent.succeeded"}
        r1 == Step(r, "normalize")
        loc1 == [evt |-> evt, inserted |-> r.loc.inserted, normalized |-> normalized,
                 buyerEmail |-> buyerEmail, customerId |-> 0, brevo |-> Null]
    IN  IF ~shouldSend THEN Finish(r, ok([ignored |-> TRUE]))
        ELSE [r1 EXCEPT !.loc = loc1,
                        !.pc = IF cfg.db /\ shouldProcessDb THEN "customer" ELSE "send"]

\* the handler without its upserts: an allowed event with an email goes
\* straight to the send
StripeAfterLedgerNoUpserts(r) ==
    LET evt == r.loc.evt
        shouldSend == evt.type \in {"checkout.session.completed",
                                    "payment_intent.succeeded", "invoice.paid"}
        normalized == normalizeStripeEvent(evt)
        buyerEmail == Coalesce(normalized.email, extractBuyerEmail(evt))
        r1 == Step(r, "normalize")
        loc1 == [evt |-> evt, inserted |-> r.loc.inserted, normalized |-> normalized,
                 buyerEmail |-> buyerEmail, customerId |-> 0, brevo |-> Null]
    IN  IF ~shouldSend THEN Finish(r, ok([ignored |-> TRUE]))
        ELSE IF ~Truthy(buyerEmail)
        THEN Finish(r1, ok([skipped |-> TRUE, reason |-> "no_email"]))
        ELSE [r1 EXCEPT !.loc = loc1, !.pc = "send"]

\* Lines 395-467 up to the next await: allow-list, normalization, email.
StripeAfterLedger(r) ==
    LET evt == r.loc.evt
        shouldSend == evt.type \in {"checkout.session.completed",
                                    "payment_intent.succeeded", "invoice.paid"}
        normalized == normalizeStripeEvent(evt)
        buyerEmail == Coalesce(normalized.email, extractBuyerEmail(evt))
        shouldProcessDb == evt.type \in {"checkout.session.completed",
                                         "payment_intent.succeeded"}
        r1 == Step(r, "normalize")
        loc1 == [evt |-> evt, inserted |-> r.loc.inserted, normalized |-> normalized,
                 buyerEmail |-> buyerEmail, customerId |-> 0, brevo |-> Null]
    IN  IF ~shouldSend THEN Finish(r, ok([ignored |-> TRUE]))
        ELSE IF ~Truthy(buyerEmail)
        THEN Finish(r1, ok([skipped |-> TRUE, reason |-> "no_email"]))
        ELSE [r1 EXCEPT !.loc = loc1,
                        !.pc = IF cfg.db /\ shouldProcessDb THEN "customer" ELSE "send"]

StripeDeliver(i, method, header, raw) ==
    /\ reqs[i].pc = "idle"
    /\ \A j \in Slots : j < i => Started(j)
    /\ reqs' = [reqs EXCEPT ![i] =
            [StripeStart(method, header, raw) EXCEPT !.doneBefore = {j \in Slots : Done(j)}]]
    /\ UNCHANGED <<call, cfg, dbvars, outbox, clock, faults, fn>>

LedgerIds == {row.event_id : row \in stripe_event_ledger}

\* StripeLedger failing closed: a ledger error ends the request with 500.
StripeLedgerFailClosed(i, res) ==
    LET r == reqs[i]
        evt == r.loc.evt
        row == [event_id |-> evt.id, event_type |-> evt.type]
        isNew == evt.id = Null \/ evt.id \notin LedgerIds
    IN  /\ r.pc = "ledger"
        /\ Fault(res)
        /\ IF r.raw.kind = "null"
           THEN /\ res = "ok"
                /\ reqs' = [reqs EXCEPT ![i] = Finish(r, bad("internal error", 500))]
                /\ UNCHANGED stripe_event_ledger
           ELSE IF ~cfg.db
           THEN /\ res = "ok"
                /\ reqs' = [reqs EXCEPT ![i] = StripeAfterLedger(r)]
                /\ UNCHANGED stripe_event_ledger
           ELSE IF res = "error"
           THEN /\ reqs' = [reqs EXCEPT ![i] =
                        Finish(Step(r, "ledger_error"), bad("internal error", 500))]
                /\ UNCHANGED stripe_event_ledger
           ELSE IF isNew
           THEN /\ stripe_event_ledger' = stripe_event_ledger \cup {row}
                /\ reqs' = [reqs EXCEPT ![i] =
                        StripeAfterLedger([Step(r, "ledger_insert")
                                              EXCEPT !.loc.inserted = TRUE])]
           ELSE /\ UNCHANGED stripe_event_ledger
                /\ reqs' = [reqs EXCEPT ![i] =
                        Finish(Step(r, "ledger_duplicate"),
                               ok([received |-> TRUE, duplicate |-> TRUE]))]
        /\ UNCHANGED <<call, cfg, customers, premium_subscriptions, onboarding_emails,
                       subscribers, outbox, clock>>

\* StripeLedger with ignoreDuplicates left out: the upsert returns the row
\* whether or not it was there, so a replay is taken for a new event.
StripeLedgerNoDedup(i, res) ==
    LET r == reqs[i]
        evt == r.loc.evt
        row == [event_id |-> evt.id, event_type |-> evt.type]
    IN  /\ r.pc = "ledger"
        /\ Fault(res)
        /\ IF r.raw.kind = "null"
           THEN /\ res = "ok"
                /\ reqs' = [reqs EXCEPT ![i] = Finish(r, bad("internal error", 500))]
                /\ UNCHANGED stripe_event_ledger
           ELSE IF ~cfg.db
           THEN /\ res = "ok"
                /\ reqs' = [reqs EXCEPT ![i] = StripeAfterLedger(r)]
                /\ UNCHANGED stripe_event_ledger
           ELSE IF res = "error"
           THEN /\ reqs' = [reqs EXCEPT ![i] = StripeAfterLedger(Step(r, "ledger_error"))]
                /\ UNCHANGED stripe_event_ledger
           ELSE /\ stripe_event_ledger' = stripe_event_ledger \cup {row}
                /\ reqs' = [reqs EXCEPT ![i] =
                        StripeAfterLedger([Step(r, "ledger_insert")
                                              EXCEPT !.loc.inserted = TRUE])]
        /\ UNCHANGED <<call, cfg, customers, premium_subscriptions, onboarding_emails,
                       subscribers, outbox, clock>>

\* StripeLedger with ignoreDuplicates: false: the row of a known event id is
\* overwritten by the new delivery, which is still answered as a duplicate.
StripeLedgerOverwrite(i, res) ==
    LET r == reqs[i]
        evt == r.loc.evt
        row == [event_id |-> evt.id, event_type |-> evt.type]
        isNew == evt.id = Null \/ evt.id \notin LedgerIds
    IN  /\ r.pc = "ledger"
        /\ Fault(res)
        /\ IF r.raw.kind = "null"
           THEN /\ res = "ok"
                /\ reqs' = [reqs EXCEPT ![i] = Finish(r, bad("internal error", 500))]
                /\ UNCHANGED stripe_event_ledger
           ELSE IF ~cfg.db
           THEN /\ res = "ok"
                /\ reqs' = [reqs EXCEPT ![i] = StripeAfterLedger(r)]
                /\ UNCHANGED stripe_event_ledger
           ELSE IF res = "error"
           THEN /\ reqs' = [reqs EXCEPT ![i] = StripeAfterLedger(Step(r, "ledger_error"))]
                /\ UNCHANGED stripe_event_ledger
           ELSE IF isNew
           THEN /\ stripe_event_ledger' = stripe_event_ledger \cup {row}
                /\ reqs' = [reqs EXCEPT ![i] =
                        StripeAfterLedger([Step(r, "ledger_insert")
                                              EXCEPT !.loc.inserted = TRUE])]
           ELSE /\ stripe_event_ledger' =
                      {x \in stripe_event_ledger : x.event_id # evt.id} \cup {row}
                /\ reqs' = [reqs EXCEPT ![i] =
                        Finish(Step(r, "ledger_duplicate"),
                               ok([received |-> TRUE, duplicate |-> TRUE]))]
        /\ UNCHANGED <<call, cfg, customers, premium_subscriptions, onboarding_emails,
                       subscribers, outbox, clock>>

\* the handler without lines 374-393: no ledger upsert before the allow-list
StripeLedgerSkipped(i, res) ==
    LET r == reqs[i]
    IN  /\ r.pc = "ledger"
        /\ Fault(res)
        /\ res = "ok"
        /\ reqs' = [reqs EXCEPT ![i] =
                IF r.raw.kind = "null" THEN Finish(r, bad("internal error", 500))
                ELSE StripeAfterLedger(r)]
        /\ UNCHANGED <<call, cfg, stripe_event_ledger, customers, premium_subscriptions,
                       onboarding_emails, subscribers, outbox, clock>>

\* Lines 374-393: upsert(..., {onConflict: "event_id", ignoreDuplicates: true}).select()
\* res is the outcome of the database call.
StripeLedger(i, res) ==
    LET r == reqs[i]
        evt == r.loc.evt
        row == [event_id |-> evt.id, event_type |-> evt.type]
        isNew == evt.id = Null \/ evt.id \notin LedgerIds
    IN  /\ r.pc = "ledger"
        /\ Fault(res)
        /\ IF r.raw.kind = "null"
           THEN \* evt is null: evt.id / evt.type throws, caught at line 491
                /\ res = "ok"
                /\ reqs' = [reqs EXCEPT ![i] = Finish(r, bad("internal error", 500))]
                /\ UNCHANGED stripe_event_ledger
           ELSE IF ~cfg.db
           THEN /\ res = "ok"
                /\ reqs' = [reqs EXCEPT ![i] = StripeAfterLedger(r)]
                /\ UNCHANGED stripe_event_ledger
           ELSE IF res = "error"
           THEN /\ reqs' = [reqs EXCEPT ![i] = StripeAfterLedger(Step(r, "ledger_error"))]
                /\ UNCHANGED stripe_event_ledger
           ELSE IF isNew
           THEN /\ stripe_event_ledger' = stripe_event_ledger \cup {row}
                /\ reqs' = [reqs EXCEPT ![i] =
                        StripeAfterLedger([Step(r, "ledger_insert")
                                              EXCEPT !.loc.inserted = TRUE])]
           ELSE /\ UNCHANGED stripe_event_ledger
                /\ reqs' = [reqs EXCEPT ![i] =
                        Finish(Step(r, "ledger_duplicate"),
                               ok([received |-> TRUE, duplicate |-> TRUE]))]
        /\ UNCHANGED <<call, cfg, customers, premium_subscriptions, onboarding_emails,
                       subscribers, outbox, clock>>

\* upsert(row, {onConflict: key}): the rows with the same non-null key are
\* replaced by row (NULL never conflicts), otherwise row is added.
Conflicts(table, key, row) ==
    {k \in 1..Len(table) : row[key] # Null /\ table[k][key] = row[key]}

\* StripeCustomer treating a failed upsert as fatal: the request ends with 500.
StripeCustomerAbort(i, res) ==
    LET r == reqs[i]
        hit == Conflicts(customers, "stripe_customer_id",
                         [stripe_customer_id |-> r.loc.normalized.customerId])
        id == IF hit = {} THEN Len(customers) + 1 ELSE customers[CHOOSE k \in hit : TRUE].id
        row == [id |-> id, stripe_customer_id |-> r.loc.normalized.customerId,
                email |-> Str(r.loc.buyerEmail)]
    IN  /\ r.pc = "customer"
        /\ Fault(res)
        /\ IF res = "ok"
           THEN /\ customers' = IF hit = {} THEN Append(customers, row)
                                 ELSE [k \in 1..Len(customers) |->
                                          IF k \in hit THEN row ELSE customers[k]]
                /\ reqs' = [reqs EXCEPT ![i] =
                        [Step(r, "customer_upsert") EXCEPT !.pc = "subscription",
                                                           !.loc.customerId = id]]
           ELSE /\ UNCHANGED customers
                /\ reqs' = [reqs EXCEPT ![i] =
                        Finish(Step(Step(r, "customer_upsert"), "customer_error"),
                               bad("internal error", 500))]
        /\ UNCHANGED <<call, cfg, stripe_event_ledger, premium_subscriptions,
                       onboarding_emails, subscribers, outbox, clock>>

\* Lines 421-440: customers.upsert(...).select("*").single()
StripeCustomer(i, res) ==
    LET r == reqs[i]
        hit == Conflicts(customers, "stripe_customer_id",
                         [stripe_customer_id |-> r.loc.normalized.customerId])
        id == IF hit = {} THEN Len(customers) + 1 ELSE customers[CHOOSE k \in hit : TRUE].id
        row == [id |-> id, stripe_customer_id |-> r.loc.normalized.customerId,
                email |-> Str(r.loc.buyerEmail)]
    IN  /\ r.pc = "customer"
        /\ Fault(res)
        /\ IF res = "ok"
           THEN /\ customers' = IF hit = {} THEN Append(customers, row)
                                 ELSE [k \in 1..Len(customers) |->
                                          IF k \in hit THEN row ELSE customers[k]]
                /\ reqs' = [reqs EXCEPT ![i] =
                        [Step(r, "customer_upsert") EXCEPT !.pc = "subscription",
                                                           !.loc.customerId = id]]
           ELSE /\ UNCHANGED customers
                /\ reqs' = [reqs EXCEPT ![i] =
                        [Step(Step(r, "customer_upsert"), "customer_error")
                            EXCEPT !.pc = "subscription"]]
        /\ UNCHANGED <<call, cfg, stripe_event_ledger, premium_subscriptions,
                       onboarding_emails, subscribers, outbox, clock>>

\* Lines 442-461: premium_subscriptions.upsert(..., onConflict stripe_checkout_session_id)
StripeSubscription(i, res) ==
    LET r == reqs[i]
        n == r.loc.normalized
        row == [customer_id |-> r.loc.customerId,
                stripe_checkout_session_id |-> n.checkoutSessionId,
                status |-> "active",
                plan_id |-> Coalesce(n.planId, n.productName),
                last_event_at |-> clock + 1]
        hit == Conflicts(premium_subscriptions, "stripe_checkout_session_id", row)
    IN  /\ r.pc = "subscription"
        /\ Fault(res)
        /\ IF res = "ok"
           THEN /\ premium_subscriptions' =
                      IF hit = {} THEN Append(premium_subscriptions, row)
                      ELSE [k \in 1..Len(premium_subscriptions) |->
                               IF k \in hit THEN row ELSE premium_subscriptions[k]]
                /\ clock' = clock + 1
                /\ reqs' = [reqs EXCEPT ![i] =
                        [Step(r, "subscription_upsert") EXCEPT !.pc = "send"]]
           ELSE /\ UNCHANGED <<premium_subscriptions, clock>>
                /\ reqs' = [reqs EXCEPT ![i] =
                        [Step(Step(r, "subscription_upsert"), "subscription_error")
                            EXCEPT !.pc = "send"]]
        /\ UNCHANGED <<call, cfg, stripe_event_ledger, customers, onboarding_emails,
                       subscribers, outbox>>

\* sendOnboardingEmail swallowing the failure: the catch block reports ok
sendOnboardingEmailSwallow(res) == [ok |-> TRUE, error |-> Null]

\* Lines 307-347: sendOnboardingEmail never throws; a Brevo failure becomes
\* {ok: false, error}.  res is the outcome of the call to Brevo.
sendOnboardingEmail(res) ==
    IF res = "ok" THEN [ok |-> TRUE, error |-> Null]
    ELSE [ok |-> FALSE, error |-> "Brevo error 500"]

\* StripeSend trying Brevo a second time when the first call failed
StripeSendRetry(i, res) ==
    LET r == reqs[i]
        entry == [kind |-> "email", to |-> r.loc.buyerEmail,
                  product |-> r.loc.normalized.productName, by |-> i, ok |-> FALSE]
    IN  /\ r.pc = "send"
        /\ Fault(res)
        /\ outbox' = IF res = "ok" THEN Append(outbox, [entry EXCEPT !.ok = TRUE])
                     ELSE Append(Append(outbox, entry), [entry EXCEPT !.ok = TRUE])
        /\ reqs' = [reqs EXCEPT ![i] =
                [(IF res = "ok" THEN Step(r, "email_send")
                  ELSE Step(Step(r, "email_send"), "email_send"))
                    EXCEPT !.pc = "notify", !.loc.brevo = sendOnboardingEmail("ok")]]
        /\ UNCHANGED <<call, cfg, dbvars, clock>>

\* Line 470
StripeSend(i, res) ==
    LET r == reqs[i]
        brevo == sendOnboardingEmail(res)
    IN  /\ r.pc = "send"
        /\ Fault(res)
        /\ outbox' = Append(outbox, [kind |-> "email", to |-> r.loc.buyerEmail,
                                     product |-> r.loc.normalized.productName,
                                     by |-> i, ok |-> res = "ok"])
        /\ reqs' = [reqs EXCEPT ![i] =
                [Step(r, "email_send") EXCEPT !.pc = "notify", !.loc.brevo = brevo]]
        /\ UNCHANGED <<call, cfg, dbvars, clock>>

\* StripeNotify answering 500 when the email was not sent, so that the provider
\* delivers the event again.
StripeNotifyFailClosed(i, res) ==
    LET r == reqs[i]
        brevo == r.loc.brevo
        resp == IF brevo.ok THEN ok([received |-> TRUE, sent |-> TRUE])
                ELSE bad("email not sent", 500)
    IN  /\ r.pc = "notify"
        /\ Fault(res)
        /\ res = "ok"
        /\ reqs' = [reqs EXCEPT ![i] = Finish(r, resp)]
        /\ UNCHANGED <<call, cfg, dbvars, outbox, clock>>

\* StripeNotify keeping one onboarding_emails row per event id: a second
\* notification for the event overwrites the row of the first
StripeNotifyUpsert(i, res) ==
    LET r == reqs[i]
        n == r.loc.normalized
        brevo == r.loc.brevo
        row == [to_email |-> r.loc.buyerEmail, product_name |-> n.productName,
                event_id |-> n.eventId,
                stripe_checkout_session_id |-> n.checkoutSessionId,
                stripe_customer_id |-> n.customerId,
                status |-> IF brevo.ok THEN "sent" ELSE "error",
                error_message |-> IF brevo.ok THEN Null ELSE brevo.error]
        hit == Conflicts(onboarding_emails, "event_id", row)
        resp == ok([received |-> TRUE, sent |-> brevo.ok])
    IN  /\ r.pc = "notify"
        /\ Fault(res)
        /\ IF ~cfg.db
           THEN /\ res = "ok"
                /\ UNCHANGED onboarding_emails
                /\ reqs' = [reqs EXCEPT ![i] = Finish(r, resp)]
           ELSE IF res = "ok"
           THEN /\ onboarding_emails' =
                      IF hit = {} THEN Append(onboarding_emails, row)
                      ELSE [k \in 1..Len(onboarding_emails) |->
                               IF k \in hit THEN row ELSE onboarding_emails[k]]
                /\ reqs' = [reqs EXCEPT ![i] = Finish(Step(r, "notification_insert"), resp)]
           ELSE /\ UNCHANGED onboarding_emails
                /\ reqs' = [reqs EXCEPT ![i] =
                        Finish(Step(Step(r, "notification_insert"), "notification_error"),
                               resp)]
        /\ UNCHANGED <<call, cfg, stripe_event_ledger, customers, premium_subscriptions,
                       subscribers, outbox, clock>>

\* Lines 472-490: onboarding_emails.insert(...), then the response
StripeNotify(i, res) ==
    LET r == reqs[i]
        n == r.loc.normalized
        brevo == r.loc.brevo
        row == [to_email |-> r.loc.buyerEmail, product_name |-> n.productName,
                event_id |-> n.eventId,
                stripe_checkout_session_id |-> n.checkoutSessionId,
                stripe_customer_id |-> n.customerId,
                status |-> IF brevo.ok THEN "sent" ELSE "error",
                error_message |-> IF brevo.ok THEN Null ELSE brevo.error]
        resp == ok([received |-> TRUE, sent |-> brevo.ok])
    IN  /\ r.pc = "notify"
        /\ Fault(res)
        /\ IF ~cfg.db
           THEN /\ res = "ok"
                /\ UNCHANGED onboarding_emails
                /\ reqs' = [reqs EXCEPT ![i] = Finish(r, resp)]
           ELSE IF res = "ok"
           THEN /\ onboarding_emails' = Append(onboarding_emails, row)
                /\ reqs' = [reqs EXCEPT ![i] = Finish(Step(r, "notification_insert"), resp)]
           ELSE /\ UNCHANGED onboarding_emails
                /\ reqs' = [reqs EXCEPT ![i] =
                        Finish(Step(Step(r, "notification_insert"), "notification_error"),
                               resp)]
        /\ UNCHANGED <<call, cfg, stripe_event_ledger, customers, premium_subscriptions,
                       subscribers, outbox, clock>>

(***************************************************************************)
(* subscribers: the table shared by the Gumroad and the Payhip functions.  *)
(* Both upserts name a conflict column (sale_id, email), so each of the    *)
(* two columns carries a unique constraint; NULLs never collide.           *)
(* revoked_at = 0 is NULL.                                                 *)
(***************************************************************************)
SubscriberRow(sale_id, email, source) ==
    [sale_id |-> sale_id, email |-> email, source |-> source, revoked_at |-> 0,
     links |-> FALSE]

\* a unique constraint of subscribers is broken in table t
UniqueViolated(t) ==
    \E a, b \in 1..Len(t) :
        /\ a # b
        /\ \/ t[a].sale_id # Null /\ t[a].sale_id = t[b].sale_id
           \/ t[a].email # Null /\ t[a].email = t[b].email

\* an upsert that replaces the whole conflicting row by the new one, so that
\* columns the payload does not carry (revoked_at) fall back to their defaults
UpsertSubscriberReplace(t, key, row, cols) ==
    LET hit == Conflicts(t, key, row)
    IN  IF hit = {} THEN Append(t, row)
        ELSE [k \in 1..Len(t) |-> IF k \in hit THEN row ELSE t[k]]

\* subscribers.upsert(row, {onConflict: key}): only the columns given in cols change
UpsertSubscriber(t, key, row, cols) ==
    LET hit == Conflicts(t, key, row)
    IN  IF hit = {} THEN Append(t, row)
        ELSE [k \in 1..Len(t) |->
                IF k \in hit
                THEN [c \in DOMAIN t[k] |-> IF c \in cols THEN row[c] ELSE t[k][c]]
                ELSE t[k]]

\* subscribers.update({revoked_at: now}).eq("sale_id", sale_id)
RevokeSubscriber(t, sale_id, now) ==
    [k \in 1..Len(t) |->
        IF t[k].sale_id = sale_id THEN [t[k] EXCEPT !.revoked_at = now] ELSE t[k]]

\* The response the std server gives when the handler throws.
Unhandled == Response(500, [unhandled |-> TRUE])

JsonResponse(status, body) == Response(status, body)

(***************************************************************************)
(* gumroad-webhook                                                         *)
(***************************************************************************)
GumroadPayload(action) ==
    [action |-> action, resource_name |-> Null, sale_id |-> Null, id |-> Null,
     email |-> Null, purchaser_email |-> Null, product_id |-> Null,
     seller_id |-> Null, seller_obj_id |-> Null, secret |-> Null, cf_secret |-> Null,
     telegram_user_id |-> Null]

\* what parsing yields for a body that carries none of the known members
NoPayload == GumroadPayload(Null)

\* parseBody: [threw, payload] for a content type and a raw body
parseBody(ct, raw) ==
    IF ct = "application/json"
    THEN IF raw.kind = "json" THEN [threw |-> FALSE, payload |-> raw.p]
         ELSE [threw |-> TRUE, payload |-> NoPayload]
    ELSE IF ct = "application/x-www-form-urlencoded"
    THEN [threw |-> FALSE, payload |-> IF raw.kind = "form" THEN raw.p ELSE NoPayload]
    ELSE [threw |-> FALSE, payload |-> IF raw.kind = "json" THEN raw.p ELSE NoPayload]

actionOf(p) == Str(Coalesce(p.action, Coalesce(p.resource_name, "")))

\* X-Gumroad-Signature check; header is <<>> when absent, <<digest>> otherwise
GumroadVerifyHmac(header, rawBody) ==
    LET secret == cfg.gumroadWebhookSecret
    IN  IF ~Truthy(secret) THEN FALSE
        ELSE IF header = <<>> THEN FALSE
        ELSE toLowerCase(hmacSHA256Hex(secret, rawBody)) = toLowerCase(header[1])

\* the fallback with || in place of &&: one matching member is enough
GumroadBodyAuthEither(payload) ==
    LET needSecret == cfg.gumroadWebhookSecret
        needSeller == cfg.gumroadSellerId
        gotSecret == Coalesce(payload.secret, payload.cf_secret)
        gotSeller == Coalesce(payload.seller_id, payload.seller_obj_id)
    IN  \/ (IF Truthy(needSecret) THEN gotSecret = needSecret ELSE TRUE)
        \/ (IF Truthy(needSeller) THEN gotSeller = needSeller ELSE TRUE)

\* Lines 172-184: fallback to body secret / seller_id
GumroadBodyAuth(payload) ==
    LET needSecret == cfg.gumroadWebhookSecret
        needSeller == cfg.gumroadSellerId
        gotSecret == Coalesce(payload.secret, payload.cf_secret)
        gotSeller == Coalesce(payload.seller_id, payload.seller_obj_id)
    IN  /\ (IF Truthy(needSecret) THEN gotSecret = needSecret ELSE TRUE)
        /\ (IF Truthy(needSeller) THEN gotSeller = needSeller ELSE TRUE)

\* Lines 196-227: the dispatch on action, up to the first database call
GumroadDispatch(r, payload, action) ==
    LET sale_id == Str(Coalesce(payload.sale_id, Coalesce(payload.id, "")))
        email == Str(Coalesce(payload.email, Coalesce(payload.purchaser_email, "")))
        loc == [payload |-> payload, sale_id |-> sale_id, email |-> email]
    IN  IF action = "sale"
        THEN IF ~cfg.db THEN Finish(Step(r, "throw"), Unhandled)
             ELSE IF sale_id = "" \/ email = ""
             THEN Finish(r, JsonResponse(200, [ok |-> FALSE,
                                               error |-> "missing_sale_or_email"]))
             ELSE [r EXCEPT !.pc = "g_upsert", !.loc = loc]
        ELSE IF action \in {"refund", "chargeback", "subscription_cancelled"}
        THEN IF cfg.db /\ sale_id # ""
             THEN [r EXCEPT !.pc = "g_revoke", !.loc = loc]
             ELSE Finish(r, JsonResponse(200, [ok |-> TRUE]))
        ELSE Finish(r, JsonResponse(200, [ok |-> TRUE,
                                          received |-> OrElse(action, "unknown")]))

\* GumroadStart authenticating before it looks for a ping.
GumroadStartAuthFirst(method, header, ct, raw) ==
    LET r0 == [NewReq("gumroad", method, header, ct, raw) EXCEPT !.trace = <<"read_raw">>]
        parsed == parseBody(ct, raw)
        payload == parsed.payload
        action == actionOf(payload)
        r1 == Step(r0, "parse")
        r2 == Step(r1, "verify")
        hmacOk == GumroadVerifyHmac(header, raw)
        authed == IF hmacOk THEN TRUE ELSE GumroadBodyAuth(payload)
    IN  IF method \in {"GET", "HEAD"} THEN Finish(Step(r0, "throw"), Unhandled)
        ELSE IF parsed.threw THEN Finish(Step(r1, "throw"), Unhandled)
        ELSE IF cfg.requireGumroadAuth /\ ~authed
        THEN Finish(r2, JsonResponse(200, [ok |-> FALSE, error |-> "unauthorized"]))
        ELSE IF action = "ping"
        THEN Finish(r1, JsonResponse(200, [ok |-> TRUE, type |-> "ping"]))
        ELSE GumroadDispatch(r1, payload, action)

\* Lines 147-194: raw body, parse, ping, optional auth
GumroadStart(method, header, ct, raw) ==
    LET r0 == [NewReq("gumroad", method, header, ct, raw) EXCEPT !.trace = <<"read_raw">>]
        parsed == parseBody(ct, raw)
        payload == parsed.payload
        action == actionOf(payload)
        r1 == Step(r0, "parse")
    IN  IF method \in {"GET", "HEAD"}
        THEN \* new Request(req, {body}) throws for a method without a body
             Finish(Step(r0, "throw"), Unhandled)
        ELSE IF parsed.threw THEN Finish(Step(r1, "throw"), Unhandled)
        ELSE IF action = "ping"
        THEN Finish(r1, JsonResponse(200, [ok |-> TRUE, type |-> "ping"]))
        ELSE IF cfg.requireGumroadAuth
        THEN LET r2 == Step(r1, "verify")
                 hmacOk == GumroadVerifyHmac(header, raw)
                 authed == IF hmacOk THEN TRUE ELSE GumroadBodyAuth(payload)
             IN  IF ~authed
                 THEN Finish(r2, JsonResponse(200, [ok |-> FALSE, error |-> "unauthorized"]))
                 ELSE GumroadDispatch(IF hmacOk THEN Step(r2, "verified") ELSE r2,
                                      payload, action)
        ELSE GumroadDispatch(r1, payload, action)

GumroadDeliver(i, method, header, ct, raw) ==
    /\ reqs[i].pc = "idle"
    /\ \A j \in Slots : j < i => Started(j)
    /\ reqs' = [reqs EXCEPT ![i] =
            [GumroadStart(method, header, ct, raw) EXCEPT !.doneBefore = {j \in Slots : Done(j)}]]
    /\ UNCHANGED <<call, cfg, dbvars, outbox, clock, faults, fn>>

\* where handleSale goes after the upsert: the optional side calls that apply
GumroadAfterUpsert(r) ==
    IF Truthy(cfg.telegramBotToken) /\ Truthy(cfg.telegramCommunityChatId)
    THEN [r EXCEPT !.pc = "g_alert"]
    ELSE IF Truthy(r.loc.payload.telegram_user_id) THEN [r EXCEPT !.pc = "g_invite"]
    ELSE [r EXCEPT !.pc = "g_links"]

\* Lines 68-82: subscribers.upsert(..., {onConflict: "sale_id"})
GumroadUpsert(i, res) ==
    LET r == reqs[i]
        row == SubscriberRow(r.loc.sale_id, r.loc.email, "gumroad")
        next == UpsertSubscriber(subscribers, "sale_id", row, {"sale_id", "email"})
        r1 == Step(r, "subscriber_upsert")
    IN  /\ r.pc = "g_upsert"
        /\ Fault(res)
        /\ IF res = "ok" /\ ~UniqueViolated(next)
           THEN /\ subscribers' = next
                /\ reqs' = [reqs EXCEPT ![i] = GumroadAfterUpsert(r1)]
           ELSE /\ UNCHANGED subscribers
                /\ reqs' = [reqs EXCEPT ![i] =
                        Finish(Step(r1, "subscriber_error"),
                               JsonResponse(200, [ok |-> FALSE, error |-> "db error"]))]
        /\ UNCHANGED <<call, cfg, stripe_event_ledger, customers, premium_subscriptions,
                       onboarding_emails, outbox, clock>>

\* the chat alert without its try/catch: a failure ends the sale with ok:false
GumroadAlertFailClosed(i, res) ==
    LET r == reqs[i]
    IN  /\ r.pc = "g_alert"
        /\ Fault(res)
        /\ outbox' = Append(outbox, [kind |-> "telegram_alert", to |-> r.loc.email,
                                     product |-> Null, by |-> i, ok |-> res = "ok"])
        /\ reqs' = [reqs EXCEPT ![i] =
                IF res = "ok"
                THEN [Step(r, "telegram_alert") EXCEPT
                        !.pc = IF Truthy(r.loc.payload.telegram_user_id)
                               THEN "g_invite" ELSE "g_links"]
                ELSE Finish(Step(r, "telegram_alert"),
                            JsonResponse(200, [ok |-> FALSE,
                                               error |-> "telegram_notify_failed"]))]
        /\ UNCHANGED <<call, cfg, dbvars, clock>>

\* Lines 84-98: optional Telegram notify; a failure is caught and logged
GumroadAlert(i, res) ==
    LET r == reqs[i]
    IN  /\ r.pc = "g_alert"
        /\ Fault(res)
        /\ outbox' = Append(outbox, [kind |-> "telegram_alert", to |-> r.loc.email,
                                     product |-> Null, by |-> i, ok |-> res = "ok"])
        /\ reqs' = [reqs EXCEPT ![i] =
                [Step(r, "telegram_alert") EXCEPT
                    !.pc = IF Truthy(r.loc.payload.telegram_user_id)
                           THEN "g_invite" ELSE "g_links"]]
        /\ UNCHANGED <<call, cfg, dbvars, clock>>

\* Lines 100-122: optional auto-invite through add-telegram-member
GumroadInvite(i, res) ==
    LET r == reqs[i]
    IN  /\ r.pc = "g_invite"
        /\ Fault(res)
        /\ outbox' = Append(outbox, [kind |-> "auto_invite",
                                     to |-> r.loc.payload.telegram_user_id,
                                     product |-> Null, by |-> i, ok |-> res = "ok"])
        /\ reqs' = [reqs EXCEPT ![i] = [Step(r, "auto_invite") EXCEPT !.pc = "g_links"]]
        /\ UNCHANGED <<call, cfg, dbvars, clock>>

\* Lines 124-144: signed links attached to the row (best-effort), then the result
GumroadLinks(i, res) ==
    LET r == reqs[i]
    IN  /\ r.pc = "g_links"
        /\ Fault(res)
        /\ subscribers' =
              [k \in 1..Len(subscribers) |->
                  IF subscribers[k].sale_id = r.loc.sale_id
                  THEN [subscribers[k] EXCEPT !.links = (res = "ok")] ELSE subscribers[k]]
        /\ reqs' = [reqs EXCEPT ![i] =
                Finish(Step(r, "subscriber_update"),
                       JsonResponse(200, [ok |-> TRUE, linked |-> res = "ok"]))]
        /\ UNCHANGED <<call, cfg, stripe_event_ledger, customers, premium_subscriptions,
                       onboarding_emails, outbox, clock>>

\* Lines 203-217: refund / chargeback / cancellation marks revoked_at
GumroadRevoke(i, res) ==
    LET r == reqs[i]
    IN  /\ r.pc = "g_revoke"
        /\ Fault(res)
        /\ IF res = "ok"
           THEN /\ subscribers' = RevokeSubscriber(subscribers, r.loc.sale_id, clock + 1)
                /\ clock' = clock + 1
           ELSE UNCHANGED <<subscribers, clock>>
        /\ reqs' = [reqs EXCEPT ![i] =
                Finish(Step(r, "subscriber_revoke"), JsonResponse(200, [ok |-> TRUE]))]
        /\ UNCHANGED <<call, cfg, stripe_event_ledger, customers, premium_subscriptions,
                       onboarding_emails, outbox>>

(***************************************************************************)
(* payhip-webhook                                                          *)
(***************************************************************************)
PayhipPayload(event) ==
    [event |-> event, type |-> Null, id |-> Null, order_id |-> Null,
     email |-> Null, customer_email |-> Null, product_id |-> Null]

\* event.includes(word), for the event names the model delivers
Includes(event, word) ==
    <<event, word>> \in {<<"sale", "sale">>, <<"purchase.completed", "purchase">>,
                         <<"purchase.completed", "completed">>,
                         <<"refund", "refund">>, <<"chargeback", "chargeback">>,
                         <<"refund.completed", "refund">>,
                         <<"refund.completed", "completed">>}

SaleLike(event) ==
    Includes(event, "sale") \/ Includes(event, "purchase") \/ Includes(event, "completed")

RefundLike(event) == Includes(event, "refund") \/ Includes(event, "chargeback")

\* X-Payhip-Signature check
PayhipVerifyHmac(header, raw) ==
    LET secret == cfg.payhipApiKey
    IN  IF ~Truthy(secret) THEN FALSE
        ELSE IF header = <<>> THEN FALSE
        ELSE toLowerCase(hmacSHA256Hex(secret, raw)) = toLowerCase(header[1])

PayhipOk == Response(200, [ok |-> TRUE])

\* Lines 44-48 when reached from line 38 or after the upsert
PayhipToRevoke(r) ==
    IF RefundLike(r.loc.event) /\ cfg.db /\ r.loc.sale_id # ""
    THEN [r EXCEPT !.pc = "p_revoke"]
    ELSE Finish(r, PayhipOk)

\* Lines 28-43: method, raw body, HMAC, parse, event name
PayhipStart(method, header, raw) ==
    LET r0 == NewReq("payhip", method, header, "application/json", raw)
        r1 == Step(r0, "read_raw")
        r2 == Step(r1, "verify")
        r3 == Step(Step(r2, "verified"), "parse")
        payload == IF raw.kind = "json" THEN raw.p ELSE PayhipPayload(Null)
        event == Str(OrElse(payload.event, OrElse(payload.type, "")))
        email == OrElse(Str(OrElse(payload.customer_email, OrElse(payload.email, ""))), Null)
        sale_id == Str(OrElse(payload.id, OrElse(payload.order_id, "")))
        r4 == [r3 EXCEPT !.loc = [payload |-> payload, event |-> event, email |-> email,
                                  sale_id |-> sale_id]]
    IN  IF method # "POST" THEN Finish(r0, Response(405, [text |-> "Method Not Allowed"]))
        ELSE IF ~PayhipVerifyHmac(header, raw)
        THEN Finish(r2, Response(401, [ok |-> FALSE, error |-> "unauthorized"]))
        ELSE IF event = "" THEN Finish(r3, PayhipOk)
        ELSE IF SaleLike(event)
        THEN IF email = Null THEN PayhipToRevoke(r4)
             ELSE IF ~cfg.db THEN Finish(Step(r4, "caught"), PayhipOk)
             ELSE [r4 EXCEPT !.pc = "p_upsert"]
        ELSE PayhipToRevoke(r4)

PayhipDeliver(i, method, header, raw) ==
    /\ reqs[i].pc = "idle"
    /\ \A j \in Slots : j < i => Started(j)
    /\ reqs' = [reqs EXCEPT ![i] =
            [PayhipStart(method, header, raw) EXCEPT !.doneBefore = {j \in Slots : Done(j)}]]
    /\ UNCHANGED <<call, cfg, dbvars, outbox, clock, faults, fn>>

\* Lines 19-26: subscribers.upsert(row, {onConflict: "email"}); the result is not read
PayhipUpsert(i, res) ==
    LET r == reqs[i]
        p == r.loc.payload
        sid == OrElse(p.id, p.order_id)
        row == [SubscriberRow(IF Truthy(sid) THEN sid ELSE Null, r.loc.email, "payhip")
                    EXCEPT !.revoked_at = 0]
        cols == {"email", "source"} \cup (IF Truthy(sid) THEN {"sale_id"} ELSE {})
        next == UpsertSubscriber(subscribers, "email", row, cols)
    IN  /\ r.pc = "p_upsert"
        /\ Fault(res)
        /\ subscribers' = IF res = "ok" /\ ~UniqueViolated(next) THEN next ELSE subscribers
        /\ reqs' = [reqs EXCEPT ![i] = PayhipToRevoke(Step(r, "subscriber_upsert"))]
        /\ UNCHANGED <<call, cfg, stripe_event_ledger, customers, premium_subscriptions,
                       onboarding_emails, outbox, clock>>

\* Lines 44-48: subscribers.update({revoked_at}).eq("sale_id", sale_id)
PayhipRevoke(i, res) ==
    LET r == reqs[i]
    IN  /\ r.pc = "p_revoke"
        /\ Fault(res)
        /\ IF res = "ok"
           THEN /\ subscribers' = RevokeSubscriber(subscribers, r.loc.sale_id, clock + 1)
                /\ clock' = clock + 1
           ELSE UNCHANGED <<subscribers, clock>>
        /\ reqs' = [reqs EXCEPT ![i] = Finish(Step(r, "subscriber_revoke"), PayhipOk)]
        /\ UNCHANGED <<call, cfg, stripe_event_ledger, customers, premium_subscriptions,
                       onboarding_emails, outbox>>

(***************************************************************************)
(* Deliveries the model makes.  The provider signs with the secret it      *)
(* shares with the shop; anyone else signs with a key of their own.        *)
(***************************************************************************)
StripeSecret == "whsec_live"
GumroadSecret == "gum_secret"
GumroadSeller == "seller_1"
PayhipKey == "payhip_key"
ForgedKey == "not_the_secret"

Json(p) == [kind |-> "json", p |-> p]

Form(p) == [kind |-> "form", p |-> p]

\* a Stripe body is JSON text: an event object, the literal null, or not JSON at all
StripeBody(evt) == [kind |-> "json", evt |-> evt]

StripeGarbage == [kind |-> "garbage", evt |-> StripeEvt(Null, Null)]

StripeJsonNull == [kind |-> "null", evt |-> StripeEvt(Null, Null)]

EvtCheckout ==
    [StripeEvt("evt_1", "checkout.session.completed") EXCEPT
        !.obj_id = "cs_1", !.customer = "cus_1", !.cd_email = "a@b.com",
        !.meta_plan_id = "premium_telegram"]

EvtIgnored == StripeEvt("evt_2", "customer.updated")

EvtNoEmail == [StripeEvt("evt_3", "checkout.session.completed") EXCEPT !.obj_id = "cs_3"]

EvtInvoice == [StripeEvt("evt_4", "invoice.paid") EXCEPT !.customer_email = "a@b.com"]

EvtIntent ==
    [StripeEvt("evt_5", "payment_intent.succeeded") EXCEPT
        !.customer = "cus_1", !.receipt_email = "c@d.com",
        !.meta_checkout_session_id = "cs_1"]

EvtNoId ==
    [StripeEvt(Null, "checkout.session.completed") EXCEPT
        !.obj_id = "cs_6", !.customer_email = "c@d.com"]

\* a refund of the charge of checkout cs_1
EvtRefund ==
    [StripeEvt("evt_6", "charge.refunded") EXCEPT
        !.customer = "cus_1", !.meta_checkout_session_id = "cs_1"]

\* two checkouts of one guest: no customer id, the same email
EvtGuest1 ==
    [StripeEvt("evt_7", "checkout.session.completed") EXCEPT
        !.obj_id = "cs_7", !.cd_email = "g@h.com"]

EvtGuest2 ==
    [StripeEvt("evt_8", "checkout.session.completed") EXCEPT
        !.obj_id = "cs_8", !.cd_email = "g@h.com"]

\* the event id of EvtIgnored under another event type
EvtRetyped == StripeEvt("evt_2", "customer.created")

StripeEvents ==
    {EvtCheckout, EvtIgnored, EvtNoEmail, EvtInvoice, EvtIntent, EvtNoId, EvtRefund,
     EvtGuest1, EvtGuest2, EvtRetyped}

\* "t=<t>,v1=<hmac(key, t.body)>"
StripeSigned(key, t, raw) == <<Part("t", t), Part("v1", hmacSHA256Hex(key, <<t, raw>>))>>

StripeHeaders(raw) ==
    { <<>>,
      StripeSigned(StripeSecret, "1700000000", raw),
      StripeSigned(ForgedKey, "1700000000", raw),
      StripeSigned(StripeSecret, "1700000000", StripeBody(EvtIgnored)) }

\* <<method, header, raw>>
StripeInputs ==
    {<<"POST", h, StripeBody(EvtCheckout)>> : h \in StripeHeaders(StripeBody(EvtCheckout))}
    \cup {<<"POST", StripeSigned(StripeSecret, "1700000000", b), b>> :
            b \in {StripeBody(e) : e \in StripeEvents} \cup {StripeGarbage, StripeJsonNull}}
    \cup {<<"GET", <<>>, StripeGarbage>>,
          <<"PUT", <<>>, StripeBody(EvtCheckout)>>,
          <<"PUT", StripeSigned(StripeSecret, "1700000000", StripeBody(EvtIgnored)),
            StripeBody(EvtIgnored)>>}

GSale ==
    [GumroadPayload("sale") EXCEPT
        !.sale_id = "sale_1", !.email = "a@b.com", !.seller_id = GumroadSeller,
        !.telegram_user_id = "777"]

GSaleBodySecret == [GSale EXCEPT !.secret = GumroadSecret, !.telegram_user_id = Null]

GSaleForged ==
    [GumroadPayload("sale") EXCEPT !.sale_id = "sale_9", !.email = "x@evil.com"]

GSaleNoId == [GumroadPayload("sale") EXCEPT !.email = "a@b.com"]

GPing == GumroadPayload("ping")

GRefund == [GumroadPayload("refund") EXCEPT !.sale_id = "sale_1"]

GOther == GumroadPayload("dispute")

GumroadGarbage == [kind |-> "garbage", p |-> NoPayload]

GumroadHeaders(raw) ==
    { <<>>,
      <<hmacSHA256Hex(GumroadSecret, raw)>>,
      <<toUpperCase(hmacSHA256Hex(GumroadSecret, raw))>>,
      <<hmacSHA256Hex(ForgedKey, raw)>> }

\* <<method, header, content type, raw>>
GumroadInputs ==
    {<<"POST", h, "application/json", Json(GSale)>> : h \in GumroadHeaders(Json(GSale))}
    \cup {<<"POST", h, "application/json", Json(p)>> :
            h \in {<<>>}, p \in {GSaleBodySecret, GSaleForged, GSaleNoId, GPing, GRefund,
                                 GOther}}
    \cup {<<"POST", <<hmacSHA256Hex(GumroadSecret, Json(p))>>, "application/json", Json(p)>> :
            p \in {GRefund, GPing, GOther, GSaleNoId}}
    \cup {<<"POST", <<>>, "application/x-www-form-urlencoded", Form(GSaleBodySecret)>>,
          <<"POST", <<>>, "application/json", GumroadGarbage>>,
          <<"POST", <<>>, "text/plain", GumroadGarbage>>,
          <<"GET", <<>>, "text/plain", GumroadGarbage>>}

PSale == [PayhipPayload("sale") EXCEPT !.id = "ord_1", !.email = "a@b.com"]

PSaleNoEmail == [PayhipPayload("purchase.completed") EXCEPT !.id = "ord_2"]

PRefund == [PayhipPayload("refund") EXCEPT !.id = "ord_1"]

PRefundCompleted ==
    [PayhipPayload("refund.completed") EXCEPT !.id = "ord_1", !.email = "a@b.com"]

\* the order of PSale again, under another email
PSaleOther == [PayhipPayload("sale") EXCEPT !.id = "ord_1", !.email = "c@d.com"]

PPing == PayhipPayload("ping")

PayhipGarbage == [kind |-> "garbage", p |-> PayhipPayload(Null)]

PayhipHeaders(raw) ==
    { <<>>, <<hmacSHA256Hex(PayhipKey, raw)>>, <<hmacSHA256Hex(ForgedKey, raw)>> }

\* <<method, header, raw>>
PayhipInputs ==
    {<<"POST", h, Json(PSale)>> : h \in PayhipHeaders(Json(PSale))}
    \cup {<<"POST", <<hmacSHA256Hex(PayhipKey, Json(p))>>, Json(p)>> :
            p \in {PSaleNoEmail, PRefund, PRefundCompleted, PPing, PSaleOther}}
    \cup {<<"POST", <<hmacSHA256Hex(PayhipKey, PayhipGarbage)>>, PayhipGarbage>>,
          <<"POST", <<>>, Json(PPing)>>,
          <<"GET", <<>>, PayhipGarbage>>}

(***************************************************************************)
(* Configuration (config.ts): read() gives null for an unset or blank      *)
(* variable; db is null unless SUPABASE_URL and the service key are set.   *)
(***************************************************************************)
Configured ==
    [stripeWebhookSecret |-> StripeSecret, brevoApiKey |-> "brevo_key",
     emailFrom |-> "TrendDrop <hi@trenddrop.example>", db |-> TRUE,
     requireGumroadAuth |-> TRUE, gumroadWebhookSecret |-> GumroadSecret,
     gumroadSellerId |-> GumroadSeller, payhipApiKey |-> PayhipKey,
     telegramBotToken |-> "bot_token", telegramCommunityChatId |-> "-100123"]

StripeConfigs ==
    {[Configured EXCEPT !.stripeWebhookSecret = s, !.brevoApiKey = k, !.emailFrom = f,
                        !.db = d] :
        s \in {Null, StripeSecret}, k \in {Null, "brevo_key"},
        f \in {Null, "TrendDrop <hi@trenddrop.example>"}, d \in BOOLEAN}

GumroadConfigs ==
    {[Configured EXCEPT !.requireGumroadAuth = a, !.gumroadWebhookSecret = s,
                        !.gumroadSellerId = l, !.db = d, !.telegramBotToken = b] :
        a \in BOOLEAN, s \in {Null, GumroadSecret}, l \in {Null, GumroadSeller},
        d \in BOOLEAN, b \in {Null, "bot_token"}}

PayhipConfigs ==
    {[Configured EXCEPT !.payhipApiKey = s, !.db = d] :
        s \in {Null, PayhipKey}, d \in BOOLEAN}

\* no helper function is being followed on its own
NoCall == [f |-> "none", args |-> <<>>, done |-> TRUE, out |-> Null]

InitState ==
    /\ reqs = [i \in Slots |-> Idle]
    /\ stripe_event_ledger = {}
    /\ customers = <<>>
    /\ premium_subscriptions = <<>>
    /\ onboarding_emails = <<>>
    /\ subscribers = <<>>
    /\ outbox = <<>>
    /\ clock = 0
    /\ faults = 0
    /\ call = NoCall

Outcomes == {"ok", "error"}

StripeNext ==
    \E i \in Slots :
        \/ \E in \in StripeInputs : StripeDeliver(i, in[1], in[2], in[3])
        \/ \E res \in Outcomes : StripeLedger(i, res)
        \/ \E res \in Outcomes : StripeCustomer(i, res)
        \/ \E res \in Outcomes : StripeSubscription(i, res)
        \/ \E res \in Outcomes : StripeSend(i, res)
        \/ \E res \in Outcomes : StripeNotify(i, res)

GumroadNext ==
    \E i \in Slots :
        \/ \E in \in GumroadInputs : GumroadDeliver(i, in[1], in[2], in[3], in[4])
        \/ \E res \in Outcomes : GumroadUpsert(i, res)
        \/ \E res \in Outcomes : GumroadAlert(i, res)
        \/ \E res \in Outcomes : GumroadInvite(i, res)
        \/ \E res \in Outcomes : GumroadLinks(i, res)
        \/ \E res \in Outcomes : GumroadRevoke(i, res)

PayhipNext ==
    \E i \in Slots :
        \/ \E in \in PayhipInputs : PayhipDeliver(i, in[1], in[2], in[3])
        \/ \E res \in Outcomes : PayhipUpsert(i, res)
        \/ \E res \in Outcomes : PayhipRevoke(i, res)

InitStripe == fn = "stripe" /\ cfg \in StripeConfigs /\ InitState

InitGumroad == fn = "gumroad" /\ cfg \in GumroadConfigs /\ InitState

InitPayhip == fn = "payhip" /\ cfg \in PayhipConfigs /\ InitState

\* One function at a time
SpecStripe == InitStripe /\ [][StripeNext]_vars

SpecGumroad == InitGumroad /\ [][GumroadNext]_vars

SpecPayhip == InitPayhip /\ [][PayhipNext]_vars

\* Any of the three functions
Init == InitStripe \/ InitGumroad \/ InitPayhip

Next ==
    \/ fn = "stripe" /\ StripeNext
    \/ fn = "gumroad" /\ GumroadNext
    \/ fn = "payhip" /\ PayhipNext

Spec == Init /\ [][Next]_vars

(***************************************************************************)
(* The helper functions on their own: call holds the arguments of one      *)
(* application, and then its result.                                       *)
(***************************************************************************)
\* Number of comma-separated elements of a Stripe-Signature header.
MaxParts == 3

Pending(f, args) == [f |-> f, args |-> args, done |-> FALSE, out |-> Null]

Return(v) == [call EXCEPT !.done = TRUE, !.out = v]

Returned(f) == call.f = f /\ call.done

RECURSIVE SeqsUpTo(_, _)
\* the sequences over S of length at most n
SeqsUpTo(S, n) ==
    IF n = 0 THEN {<<>>}
    ELSE LET shorter == SeqsUpTo(S, n - 1)
         IN  shorter \cup {Append(s, x) : s \in shorter, x \in S}

SigBodies == {StripeBody(EvtCheckout), StripeBody(EvtIgnored)}

SigSecrets == {StripeSecret, ForgedKey}

SigTimes == {"1700000000", "1700000300"}

\* "t=..." (also "t=" and a bare "t"), "v1=<digest>", "v0=<digest>"
SigParts ==
    {Part("t", t) : t \in SigTimes \cup {"", Null}}
    \cup {Part("v1", hmacSHA256Hex(s, <<t, b>>)) :
            s \in SigSecrets, t \in SigTimes, b \in SigBodies}
    \cup {Part("v0", hmacSHA256Hex(StripeSecret, <<"1700000000", StripeBody(EvtCheckout)>>))}

\* <<rawBody, sigHeader, secret>>
VerifyStripeInputs ==
    {<<b, h, s>> : b \in SigBodies, h \in SeqsUpTo(SigParts, MaxParts), s \in SigSecrets}

VerifyStripeSignatureCall ==
    /\ call.f = "verifyStripeSignature" /\ ~call.done
    /\ call' = Return(verifyStripeSignature(call.args[1], call.args[2], call.args[3]))
    /\ UNCHANGED <<cfg, reqs, dbvars, outbox, clock, faults, fn>>

\* the digest as a sender may write it: lower-case or upper-case hex
HexForms(d) == {d, toUpperCase(d)}

HmacBodies(provider) ==
    IF provider = "gumroad" THEN {Json(GSale), Json(GPing)}
    ELSE {Json(PSale), Json(PRefund)}

\* <<header, rawBody>> for the verifyHmac of a marketplace function
VerifyHmacInputs(provider, secret) ==
    {<<h, b>> :
        h \in {<<>>} \cup {<<x>> : x \in UNION {HexForms(hmacSHA256Hex(k, signed)) :
                                      k \in {secret, ForgedKey},
                                      signed \in HmacBodies(provider)}},
        b \in HmacBodies(provider)}

GumroadVerifyHmacCall ==
    /\ call.f = "gumroad.verifyHmac" /\ ~call.done
    /\ call' = Return(GumroadVerifyHmac(call.args[1], call.args[2]))
    /\ UNCHANGED <<cfg, reqs, dbvars, outbox, clock, faults, fn>>

PayhipVerifyHmacCall ==
    /\ call.f = "payhip.verifyHmac" /\ ~call.done
    /\ call' = Return(PayhipVerifyHmac(call.args[1], call.args[2]))
    /\ UNCHANGED <<cfg, reqs, dbvars, outbox, clock, faults, fn>>

\* Line 407: normalized.email ?? extractBuyerEmail(evt)
buyerEmailOf(evt) == Coalesce(normalizeStripeEvent(evt).email, extractBuyerEmail(evt))

\* an email member of a payload: absent, the empty string, or an address
EmailValues(addr) == {Null, "", addr}

\* the events the handler sends for, with every combination of email members
EmailEvents ==
    {[StripeEvt("evt_1", type) EXCEPT
            !.cd_email = cd, !.customer_email = ce, !.customer_obj_email = co,
            !.charge0_email = ch, !.receipt_email = re, !.lc_billing_email = lc] :
        type \in {"checkout.session.completed", "payment_intent.succeeded", "invoice.paid"},
        cd \in EmailValues("a@b.com"), ce \in EmailValues("top@x.com"),
        co \in EmailValues("c@d.com"), ch \in EmailValues("bill@x.com"),
        re \in EmailValues("rcpt@x.com"), lc \in {Null, "bill@x.com"}}

BuyerEmailCall ==
    /\ call.f = "buyerEmail" /\ ~call.done
    /\ call' = Return(buyerEmailOf(call.args[1]))
    /\ UNCHANGED <<cfg, reqs, dbvars, outbox, clock, faults, fn>>

\* gumroad-webhook line 59: String(p["email"] ?? p["purchaser_email"] ?? "")
gumroadSaleEmail(p) == Str(Coalesce(p.email, Coalesce(p.purchaser_email, "")))

\* payhip-webhook line 41: String(payload?.customer?.email || payload?.email || "") || null
\* (customer_email stands for the nested customer.email)
payhipSaleEmail(p) == OrElse(Str(OrElse(p.customer_email, OrElse(p.email, ""))), Null)

\* the email members of a marketplace sale payload
SaleEmailPayloads ==
    {[purchaser_email |-> pe, email |-> em, customer_email |-> ce] :
        pe \in EmailValues("p@x.com"), em \in EmailValues("a@b.com"),
        ce \in EmailValues("c@d.com")}

GumroadSaleEmailCall ==
    /\ call.f = "gumroad.saleEmail" /\ ~call.done
    /\ call' = Return(gumroadSaleEmail(call.args[1]))
    /\ UNCHANGED <<cfg, reqs, dbvars, outbox, clock, faults, fn>>

PayhipSaleEmailCall ==
    /\ call.f = "payhip.saleEmail" /\ ~call.done
    /\ call' = Return(payhipSaleEmail(call.args[1]))
    /\ UNCHANGED <<cfg, reqs, dbvars, outbox, clock, faults, fn>>

\* payloads for normalizeStripeEvent: the members it reads, absent or set
NormalizeEvents ==
    {[StripeEvt("evt_1", type) EXCEPT
            !.obj_id = oid, !.customer = cus, !.cd_email = cd, !.customer_email = ce,
            !.meta_plan_id = plan, !.meta_product_name = name] :
        type \in {"checkout.session.completed", "payment_intent.succeeded",
                  "invoice.paid", "customer.updated"},
        oid \in {Null, "cs_1"}, cus \in {Null, "cus_1"},
        cd \in EmailValues("a@b.com"), ce \in {Null, "top@x.com"},
        plan \in {Null, "premium_telegram"}, name \in {Null, "TrendDrop Pro"}}

NormalizeStripeEventCall ==
    /\ call.f = "normalizeStripeEvent" /\ ~call.done
    /\ call' = Return(normalizeStripeEvent(call.args[1]))
    /\ UNCHANGED <<cfg, reqs, dbvars, outbox, clock, faults, fn>>

PureInputs ==
    {Pending("verifyStripeSignature", a) : a \in VerifyStripeInputs}
    \cup {Pending("normalizeStripeEvent", <<e>>) : e \in NormalizeEvents}
    \cup {Pending("gumroad.saleEmail", <<p>>) : p \in SaleEmailPayloads}
    \cup {Pending("payhip.saleEmail", <<p>>) : p \in SaleEmailPayloads}
    \cup {Pending("buyerEmail", <<e>>) : e \in EmailEvents}
    \cup {Pending("gumroad.verifyHmac", a) : a \in VerifyHmacInputs("gumroad", GumroadSecret)}
    \cup {Pending("payhip.verifyHmac", a) : a \in VerifyHmacInputs("payhip", PayhipKey)}

\* the secrets of the marketplace functions set, or unset
PureConfigs ==
    {Configured,
     [Configured EXCEPT !.gumroadWebhookSecret = Null, !.payhipApiKey = Null]}

PureNext ==
    \/ VerifyStripeSignatureCall
    \/ GumroadVerifyHmacCall
    \/ PayhipVerifyHmacCall
    \/ BuyerEmailCall
    \/ NormalizeStripeEventCall
    \/ GumroadSaleEmailCall
    \/ PayhipSaleEmailCall

InitPure ==
    /\ fn = "none"
    /\ cfg \in PureConfigs
    /\ reqs = [i \in Slots |-> Idle]
    /\ stripe_event_ledger = {}
    /\ customers = <<>>
    /\ premium_subscriptions = <<>>
    /\ onboarding_emails = <<>>
    /\ subscribers = <<>>
    /\ outbox = <<>>
    /\ clock = 0
    /\ faults = 0
    /\ call \in PureInputs

SpecPure == InitPure /\ [][PureNext]_vars

(***************************************************************************)
(* What a delivery is and what it did                                      *)
(***************************************************************************)
WriteSteps ==
    {"ledger_insert", "customer_upsert", "subscription_upsert", "notification_insert",
     "subscriber_upsert", "subscriber_update", "subscriber_revoke"}

EffectSteps == {"email_send", "telegram_alert", "auto_invite"}

\* delivery i issued no database write and no outbound call
NoSideEffects(i) == SeqToSet(reqs[i].trace) \cap (WriteSteps \cup EffectSteps) = {}

Count(i, name) == Len(SelectSeq(reqs[i].trace, LAMBDA x : x = name))

\* name1 happened, and before name2
Before(i, name1, name2) ==
    /\ IndexOf(reqs[i].trace, name1) > 0
    /\ IndexOf(reqs[i].trace, name1) < IndexOf(reqs[i].trace, name2)

\* The header of delivery i carries the provider's signature of its raw body
\* under the secret the function is configured with.
SignatureValid(i) ==
    LET r == reqs[i]
    IN  CASE r.provider = "stripe" ->
               /\ Truthy(cfg.stripeWebhookSecret)
               /\ \E a, b \in 1..Len(r.header) :
                     /\ r.header[a].k = "t"
                     /\ r.header[b].k = "v1"
                     /\ r.header[b].v =
                          hmacSHA256Hex(cfg.stripeWebhookSecret, <<r.header[a].v, r.raw>>)
          [] r.provider = "gumroad" ->
               /\ Truthy(cfg.gumroadWebhookSecret)
               /\ r.header # <<>>
               /\ toLowerCase(r.header[1]) = hmacSHA256Hex(cfg.gumroadWebhookSecret, r.raw)
          [] r.provider = "payhip" ->
               /\ Truthy(cfg.payhipApiKey)
               /\ r.header # <<>>
               /\ toLowerCase(r.header[1]) = hmacSHA256Hex(cfg.payhipApiKey, r.raw)

\* the secret of delivery i's provider is not configured
SecretMissing(i) ==
    CASE reqs[i].provider = "stripe" -> ~Truthy(cfg.stripeWebhookSecret)
      [] reqs[i].provider = "gumroad" -> ~Truthy(cfg.gumroadWebhookSecret)
      [] reqs[i].provider = "payhip" -> ~Truthy(cfg.payhipApiKey)

\* delivery i is a Gumroad test ping: its body parses and names the action "ping"
IsPing(i) ==
    /\ reqs[i].provider = "gumroad"
    /\ reqs[i].method \notin {"GET", "HEAD"}
    /\ ~parseBody(reqs[i].ct, reqs[i].raw).threw
    /\ actionOf(parseBody(reqs[i].ct, reqs[i].raw).payload) = "ping"

\* delivery i is a Stripe delivery that reached the ledger step with an event
StripeEvent(i) ==
    /\ Started(i)
    /\ reqs[i].provider = "stripe"
    /\ Did(i, "parse")
    /\ reqs[i].raw.kind = "json"

EventId(i) == reqs[i].raw.evt.id

SameEvent(i, j) ==
    /\ StripeEvent(i) /\ StripeEvent(j)
    /\ EventId(i) # Null
    /\ EventId(i) = EventId(j)

\* i had been answered when j arrived
Sequential(i, j) == i \in reqs[j].doneBefore

\* each arrived before the other was answered
Overlapped(i, j) == i \notin reqs[j].doneBefore /\ j \notin reqs[i].doneBefore

\* the ledger upsert of delivery i returned without an error
LedgerOk(i) == Did(i, "ledger_insert") \/ Did(i, "ledger_duplicate")

IsDuplicateResponse(r) == r = ok([received |-> TRUE, duplicate |-> TRUE])

\* a Stripe event for which the handler sends the email (allow-list, email found)
Sendable(i) ==
    /\ reqs[i].raw.evt.type \in {"checkout.session.completed",
                                  "payment_intent.succeeded", "invoice.paid"}
    /\ Truthy(Coalesce(normalizeStripeEvent(reqs[i].raw.evt).email,
                        extractBuyerEmail(reqs[i].raw.evt)))

\* ... and for which it also writes the customer and the subscription
Grantable(i) ==
    /\ Sendable(i)
    /\ reqs[i].raw.evt.type \in {"checkout.session.completed", "payment_intent.succeeded"}

(***************************************************************************)
(* C1  The same event delivered twice, one delivery after the other        *)
(***************************************************************************)
\* C1 as claimed: when the same Stripe event is delivered twice, the second
\* delivery after the first was answered, the second is answered
\* duplicate:true and performs no write and no notification.
C1_Original ==
    \A i, j \in Slots :
        (i # j /\ Done(i) /\ Done(j) /\ SameEvent(i, j) /\ Sequential(i, j)
         /\ Grantable(i))
            => /\ IsDuplicateResponse(reqs[j].resp)
               /\ NoSideEffects(j)
               /\ Count(i, "subscription_upsert") = 1
               /\ Count(i, "email_send") = 1

\* C1 amended: with the database configured and the ledger upsert of both
\* deliveries succeeding, the second delivery of a Stripe event id is answered
\* 200 {received, duplicate:true} and issues no write and no send; the first
\* one issues at most one subscription upsert, one email send and one
\* onboarding_emails insert, and exactly one of each when it added the ledger
\* row and the event is one the handler sends for (resp. writes for).
C1_Theorem ==
    \A i, j \in Slots :
        (/\ i # j /\ Done(i) /\ Done(j) /\ SameEvent(i, j) /\ Sequential(i, j)
         /\ cfg.db /\ LedgerOk(i) /\ LedgerOk(j))
            => /\ IsDuplicateResponse(reqs[j].resp)
               /\ NoSideEffects(j)
               /\ Count(i, "subscription_upsert") <= 1
               /\ Count(i, "email_send") <= 1
               /\ Count(i, "notification_insert") <= 1
               /\ (Did(i, "ledger_insert") /\ Sendable(i))
                     => Count(i, "email_send") = 1 /\ Count(i, "notification_insert") = 1
               /\ (Did(i, "ledger_insert") /\ Grantable(i))
                     => Count(i, "subscription_upsert") = 1

\* a checkout event processed once, then delivered again and answered duplicate
C1_Witness ==
    \E i, j \in Slots :
        /\ i # j /\ Done(i) /\ Done(j) /\ SameEvent(i, j) /\ Sequential(i, j)
        /\ Did(i, "ledger_insert") /\ Grantable(i)
        /\ Did(i, "subscription_upsert") /\ Did(i, "email_send")
        /\ Len(onboarding_emails) = 1
        /\ IsDuplicateResponse(reqs[j].resp)

(***************************************************************************)
(* C2  The same event delivered twice at the same time                     *)
(***************************************************************************)
\* The Stripe deliveries of event id e that have got past the ledger step.
PastLedger(e) ==
    {i \in Slots : StripeEvent(i) /\ EventId(i) = e
                      /\ reqs[i].pc \notin {"start", "ledger"}}

StripeEventIds == {e.id : e \in StripeEvents} \ {Null}

\* C2 as claimed: of two deliveries of one event that are handled at the same
\* time, exactly one observes the ledger insert as new and runs the side
\* effects; the other performs no upsert, no send and no append.
C2_Original ==
    \A i, j \in Slots :
        (/\ i # j /\ SameEvent(i, j) /\ Overlapped(i, j) /\ Done(i) /\ Done(j)
         /\ Sendable(i))
            => \/ Did(i, "ledger_insert") /\ NoSideEffects(j)
               \/ Did(j, "ledger_insert") /\ NoSideEffects(i)

\* C2 amended: among the deliveries of one Stripe event id whose ledger
\* upsert returned without an error (database configured), in every
\* interleaving exactly one observes the row as new; every other one observes
\* no row, issues no write and no send, and is answered duplicate:true.
C2_Theorem ==
    \A e \in StripeEventIds :
        LET S == {i \in PastLedger(e) : LedgerOk(i)}
        IN  (cfg.db /\ S # {})
                => /\ Cardinality({i \in S : Did(i, "ledger_insert")}) = 1
                   /\ \A i \in S :
                        ~Did(i, "ledger_insert")
                            => /\ NoSideEffects(i)
                               /\ Done(i)
                               /\ IsDuplicateResponse(reqs[i].resp)

\* two deliveries of one event in flight together: one was answered
\* duplicate:true while the one that inserted the ledger row is still running
C2_Witness ==
    \E i, j \in Slots :
        /\ i # j /\ SameEvent(i, j) /\ Overlapped(i, j)
        /\ Did(i, "ledger_insert") /\ ~Done(i) /\ Did(i, "customer_upsert")
        /\ Done(j) /\ IsDuplicateResponse(reqs[j].resp)

(***************************************************************************)
(* C3  Exactly once                                                        *)
(***************************************************************************)
\* the email sends made for event id e that Brevo accepted
Delivered(e) ==
    {k \in 1..Len(outbox) :
        /\ outbox[k].kind = "email"
        /\ outbox[k].ok
        /\ EventId(outbox[k].by) = e}

\* C3 as claimed: once every delivery of an authentic sale event has been
\* answered and the provider has its 2xx, the onboarding email has gone out
\* exactly once, also when a call failed on the way.
C3_Original ==
    \A i \in Slots :
        (/\ \A k \in Slots : Started(k) => Done(k)
         /\ StripeEvent(i) /\ Done(i) /\ Grantable(i) /\ EventId(i) # Null
         /\ Is2xx(reqs[i].resp))
            => Cardinality(Delivered(EventId(i))) = 1

\* the deliveries of event id e that issued the step name
Issued(e, name) == {i \in PastLedger(e) : LedgerOk(i) /\ Did(i, name)}

\* C3 amended: at most once, not exactly once.  Over all deliveries of one
\* Stripe event id whose ledger upsert succeeded, the subscription upsert, the
\* email send and the onboarding_emails insert are each issued by at most one
\* delivery and at most once; that delivery is answered 200 whatever the
\* outcome of the calls (sent:false when Brevo failed), so a side effect that
\* failed is not attempted again.
C3_Theorem ==
    \A e \in StripeEventIds :
        cfg.db =>
            /\ \A name \in {"customer_upsert", "subscription_upsert", "email_send",
                             "notification_insert"} :
                  /\ Cardinality(Issued(e, name)) <= 1
                  /\ \A i \in Issued(e, name) : Count(i, name) = 1
            /\ \A i \in PastLedger(e) :
                  (Done(i) /\ LedgerOk(i)) => reqs[i].resp.status = 200
            /\ \A i \in PastLedger(e) :
                  (Done(i) /\ Did(i, "email_send") /\ ~reqs[i].loc.brevo.ok)
                      => reqs[i].resp = ok([received |-> TRUE, sent |-> FALSE])

\* Brevo failed for the delivery that inserted the ledger row; it was answered
\* 200 sent:false, and the redelivery was answered duplicate:true: no email
C3_Witness ==
    \E i, j \in Slots :
        /\ i # j /\ SameEvent(i, j) /\ Done(i) /\ Done(j) /\ cfg.db
        /\ Did(i, "ledger_insert") /\ Did(i, "email_send")
        /\ reqs[i].resp = ok([received |-> TRUE, sent |-> FALSE])
        /\ IsDuplicateResponse(reqs[j].resp)
        /\ Delivered(EventId(i)) = {}

(***************************************************************************)
(* C4  A request whose signature does not verify has no effect             *)
(***************************************************************************)
\* C4 as claimed: a delivery whose signature does not verify against the
\* configured secret causes no write and no outbound call.
C4_Claim == \A i \in Slots : (Started(i) /\ ~SignatureValid(i)) => NoSideEffects(i)

(***************************************************************************)
(* C5  The answer to a missing or invalid signature                        *)
(***************************************************************************)
StripeConfigured ==
    Truthy(cfg.stripeWebhookSecret) /\ Truthy(cfg.brevoApiKey) /\ Truthy(cfg.emailFrom)

Unauthorized200 == JsonResponse(200, [ok |-> FALSE, error |-> "unauthorized"])

\* what Gumroad's body parses to for delivery i
PayloadOf(i) == parseBody(reqs[i].ct, reqs[i].raw).payload

WellFormed(i) == reqs[i].raw.kind \in {"json", "form"}

NoHeaderPost(i) ==
    Done(i) /\ reqs[i].method = "POST" /\ reqs[i].header = <<>> /\ WellFormed(i)

C7_Original ==
    \A i \in Slots :
        (Started(i) /\ Did(i, "parse")) => Before(i, "verified", "parse")

\* C7 amended: in the Stripe and the Payhip function the body is parsed only
\* after the verification over the raw body has returned true.  The Gumroad
\* function reads the raw body first but parses it before it verifies
\* anything (the parsed action decides the ping bypass); its verification,
\* when it runs, comes after the parse.
C7_Theorem ==
    \A i \in Slots :
        (Started(i) /\ Did(i, "parse"))
            => IF reqs[i].provider \in {"stripe", "payhip"}
               THEN /\ Before(i, "read_raw", "verify")
                    /\ Before(i, "verify", "verified")
                    /\ Before(i, "verified", "parse")
                    /\ SignatureValid(i)
               ELSE /\ Before(i, "read_raw", "parse")
                    /\ Did(i, "verify") => Before(i, "parse", "verify")

\* a Gumroad delivery parsed first and verified afterwards
C7_Witness ==
    \E i \in Slots :
        /\ Done(i) /\ reqs[i].provider = "gumroad"
        /\ Before(i, "parse", "verify") /\ Did(i, "verified")
        /\ Did(i, "subscriber_upsert")

(***************************************************************************)
(* C8  No secret configured: fail closed                                   *)
(***************************************************************************)
\* C8 as claimed: when the provider's secret is not configured, a delivery
\* that is not a ping is not processed: it causes no write and no call.
C8_Claim ==
    \A i \in Slots :
        (Started(i) /\ SecretMissing(i) /\ ~IsPing(i)) => NoSideEffects(i)

(***************************************************************************)
(* C9  The test ping                                                       *)
(***************************************************************************)
\* C9: a Gumroad ping is answered 200 {ok:true, type:"ping"} whatever the
\* signature and the configured secret; it is not authenticated, reaches no
\* handler code behind the ping check, and writes and sends nothing.
C9_Theorem ==
    \A i \in Slots :
        (Started(i) /\ IsPing(i))
            => /\ Done(i)
               /\ reqs[i].resp = JsonResponse(200, [ok |-> TRUE, type |-> "ping"])
               /\ ~Did(i, "verify")
               /\ NoSideEffects(i)
               /\ reqs[i].trace = <<"read_raw", "parse", "respond">>

\* a ping without a signature, answered, with authentication required and
\* no secret configured
C9_Witness ==
    \E i \in Slots :
        /\ Started(i) /\ IsPing(i) /\ reqs[i].header = <<>>
        /\ cfg.requireGumroadAuth /\ ~Truthy(cfg.gumroadWebhookSecret)
        /\ Truthy(cfg.gumroadSellerId)
        /\ reqs[i].resp.status = 200

(***************************************************************************)
(* C10  A failed ledger write                                              *)
(***************************************************************************)
\* C10: a Stripe delivery whose ledger upsert failed is not answered with an
\* error or as a duplicate: it goes on as a new event does (allow-list,
\* normalization, upserts, send, record) and is answered 200.
C10_Theorem ==
    \A i \in Slots :
        (StripeEvent(i) /\ Did(i, "ledger_error"))
            => /\ reqs[i].pc # "ledger"
               /\ ~IsDuplicateResponse(reqs[i].resp)
               /\ Done(i) =>
                    /\ reqs[i].resp.status = 200
                    /\ ~Sendable(i) => NoSideEffects(i)
                    /\ Sendable(i) =>
                         /\ Before(i, "ledger_error", "normalize")
                         /\ Before(i, "normalize", "email_send")
                         /\ Before(i, "email_send", "notification_insert")
                         /\ reqs[i].resp = ok([received |-> TRUE,
                                                sent |-> reqs[i].loc.brevo.ok])
                    /\ Grantable(i) =>
                         /\ Before(i, "normalize", "customer_upsert")
                         /\ Before(i, "customer_upsert", "subscription_upsert")
                         /\ Before(i, "subscription_upsert", "email_send")

\* the ledger upsert failed; customer, subscription, email and record followed
C10_Witness ==
    \E i \in Slots :
        /\ StripeEvent(i) /\ Did(i, "ledger_error") /\ Done(i)
        /\ Did(i, "subscription_upsert") /\ Did(i, "email_send")
        /\ Len(premium_subscriptions) = 1 /\ Len(onboarding_emails) = 1
        /\ reqs[i].resp = ok([received |-> TRUE, sent |-> TRUE])

C12_Original ==
    \A i \in Slots :
        (StripeEvent(i) /\ Did(i, "email_send"))
            => Did(i, "ledger_insert") /\ Truthy(reqs[i].loc.buyerEmail)

\* C12 amended: a Stripe delivery attempts an email send exactly when it did
\* not observe the event as a duplicate (the ledger upsert inserted the row,
\* or failed, or the database is not configured), the event type is one of
\* the three the handler sends for, and an email address was resolved; it
\* attempts it once.  A delivery that observed the event as already ledgered
\* attempts none.
C12_Theorem ==
    \A i \in Slots :
        StripeEvent(i) =>
            /\ Did(i, "email_send") =>
                  /\ Did(i, "ledger_insert") \/ Did(i, "ledger_error") \/ ~cfg.db
                  /\ ~Did(i, "ledger_duplicate")
                  /\ Sendable(i)
                  /\ Truthy(reqs[i].loc.buyerEmail)
                  /\ Count(i, "email_send") = 1
            /\ (Done(i) /\ ~Did(i, "email_send")) =>
                  \/ Did(i, "ledger_duplicate")
                  \/ ~Sendable(i)

\* an email sent by a delivery whose ledger upsert failed
C12_Witness ==
    \E i \in Slots :
        /\ StripeEvent(i) /\ Done(i) /\ cfg.db
        /\ Did(i, "ledger_error") /\ ~Did(i, "ledger_insert")
        /\ \E k \in 1..Len(outbox) : outbox[k].by = i /\ outbox[k].ok

(***************************************************************************)
(* C13  Event types that are not on the allow-list                         *)
(***************************************************************************)
StripeAllowList ==
    {"checkout.session.completed", "payment_intent.succeeded", "invoice.paid"}

GumroadKnown == {"ping", "sale", "refund", "chargeback", "subscription_cancelled"}

PayhipEvent(i) ==
    LET payload == IF reqs[i].raw.kind = "json" THEN reqs[i].raw.p ELSE PayhipPayload(Null)
    IN  Str(OrElse(payload.event, OrElse(payload.type, "")))

\* delivery i is verified and carries a type the function has no branch for
VerifiedUnlisted(i) ==
    Started(i) /\
    CASE reqs[i].provider = "stripe" ->
           StripeEvent(i) /\ reqs[i].raw.evt.type \notin StripeAllowList
      [] reqs[i].provider = "gumroad" ->
           /\ Started(i) /\ reqs[i].method = "POST" /\ SignatureValid(i)
           /\ ~parseBody(reqs[i].ct, reqs[i].raw).threw
           /\ actionOf(PayloadOf(i)) \notin GumroadKnown
      [] reqs[i].provider = "payhip" ->
           /\ Started(i) /\ reqs[i].method = "POST" /\ SignatureValid(i)
           /\ ~SaleLike(PayhipEvent(i)) /\ ~RefundLike(PayhipEvent(i))

\* C13 as claimed: a verified delivery of a type that is not on the allow-list
\* writes nothing at all, notifies nobody and is answered 200 {ignored:true}.
C13_Original ==
    \A i \in Slots :
        (VerifiedUnlisted(i) /\ Done(i))
            => NoSideEffects(i) /\ reqs[i].resp = ok([ignored |-> TRUE])

\* C13 amended: such a delivery writes no customer, subscription, subscriber
\* or notification row and makes no outbound call.  In the Stripe function it
\* is entered in the ledger first (when the database is configured): the
\* delivery that inserts the ledger row, or whose ledger upsert failed, is
\* answered 200 {ignored:true}, a replay is answered {received, duplicate:true}.
\* The Gumroad function answers 200 {ok:true, received:<action>} and the Payhip
\* function 200 {ok:true}, with no write.
C13_Theorem ==
    \A i \in Slots :
        VerifiedUnlisted(i)
            => CASE reqs[i].provider = "stripe" ->
                      /\ SeqToSet(reqs[i].trace) \cap (WriteSteps \cup EffectSteps)
                            \subseteq {"ledger_insert"}
                      /\ ~Did(i, "normalize")
                      /\ Did(i, "ledger_insert") =>
                            [event_id |-> EventId(i), event_type |-> reqs[i].raw.evt.type]
                                \in stripe_event_ledger
                      /\ Done(i) =>
                            reqs[i].resp = IF Did(i, "ledger_duplicate")
                                           THEN ok([received |-> TRUE, duplicate |-> TRUE])
                                           ELSE ok([ignored |-> TRUE])
                 [] reqs[i].provider = "gumroad" ->
                      /\ Done(i) /\ NoSideEffects(i)
                      /\ reqs[i].resp =
                            JsonResponse(200, [ok |-> TRUE,
                                               received |-> OrElse(actionOf(PayloadOf(i)),
                                                                   "unknown")])
                 [] reqs[i].provider = "payhip" ->
                      Done(i) /\ NoSideEffects(i) /\ reqs[i].resp = PayhipOk

\* customer.updated, verified: entered in the ledger and answered ignored
C13_Witness ==
    \E i \in Slots :
        /\ VerifiedUnlisted(i) /\ Done(i) /\ reqs[i].provider = "stripe"
        /\ reqs[i].raw.evt.type = "customer.updated"
        /\ Did(i, "ledger_insert")
        /\ reqs[i].resp = ok([ignored |-> TRUE])
        /\ Cardinality(stripe_event_ledger) = 1

(***************************************************************************)
(* C14  Refunds revoke the entitlement                                     *)
(***************************************************************************)
\* the entitlement key delivery j wrote a record for, Null when it wrote none
GrantedKey(j) ==
    IF ~Started(j) THEN Null
    ELSE CASE reqs[j].provider = "stripe" ->
                IF Did(j, "subscription_upsert") /\ ~Did(j, "subscription_error")
                THEN reqs[j].loc.normalized.checkoutSessionId ELSE Null
           [] reqs[j].provider \in {"gumroad", "payhip"} ->
                IF Did(j, "subscriber_upsert") /\ ~Did(j, "subscriber_error")
                   /\ reqs[j].loc.sale_id # ""
                THEN reqs[j].loc.sale_id ELSE Null

RevocationTypes == {"charge.refunded", "charge.dispute.created",
                    "customer.subscription.deleted"}

\* the entitlement key a verified refund / chargeback / cancellation delivery
\* i refers to, Null when i is no such delivery
RefundRef(i) ==
    IF ~Started(i) THEN Null
    ELSE CASE reqs[i].provider = "stripe" ->
                IF StripeEvent(i) /\ reqs[i].raw.evt.type \in RevocationTypes
                THEN Coalesce(reqs[i].raw.evt.meta_checkout_session_id,
                              reqs[i].raw.evt.obj_id)
                ELSE Null
           [] reqs[i].provider = "gumroad" ->
                IF /\ reqs[i].method = "POST" /\ SignatureValid(i)
                   /\ ~parseBody(reqs[i].ct, reqs[i].raw).threw
                   /\ actionOf(PayloadOf(i)) \in
                         {"refund", "chargeback", "subscription_cancelled"}
                THEN OrElse(Str(Coalesce(PayloadOf(i).sale_id,
                                         Coalesce(PayloadOf(i).id, ""))), Null)
                ELSE Null
           [] reqs[i].provider = "payhip" ->
                IF /\ reqs[i].method = "POST" /\ SignatureValid(i)
                   /\ reqs[i].raw.kind = "json" /\ RefundLike(PayhipEvent(i))
                THEN OrElse(Str(OrElse(reqs[i].raw.p.id,
                                       OrElse(reqs[i].raw.p.order_id, ""))), Null)
                ELSE Null

\* the entitlement record of the key is revoked
Revoked(provider, key) ==
    IF provider = "stripe"
    THEN \A k \in 1..Len(premium_subscriptions) :
            premium_subscriptions[k].stripe_checkout_session_id = key
                => premium_subscriptions[k].status = "revoked"
    ELSE \A k \in 1..Len(subscribers) :
            subscribers[k].sale_id = key => subscribers[k].revoked_at # 0

\* C14 as claimed: when a verified refund event that refers to the key of an
\* entitlement recorded earlier has been answered (every storage call having
\* succeeded, nothing else delivered since), it was answered 200 and the
\* entitlement of that key is revoked.
C14_Claim ==
    \A i, j \in Slots :
        (/\ i # j /\ Done(i) /\ Done(j) /\ Sequential(j, i)
         /\ \A k \in Slots : (k # i /\ Started(k)) => Sequential(k, i)
         /\ faults = 0
         /\ cfg.db
         /\ RefundRef(i) # Null
         /\ GrantedKey(j) = RefundRef(i))
            => /\ reqs[i].resp.status = 200
               /\ Revoked(reqs[i].provider, RefundRef(i))

(***************************************************************************)
(* C15  Revoked stays revoked                                              *)
(***************************************************************************)
RevokedSaleIds ==
    {subscribers[k].sale_id : k \in {n \in 1..Len(subscribers) :
                                         subscribers[n].revoked_at # 0}} \ {Null}

\* C15: no step of any handler makes a revoked entitlement active again: a
\* subscribers row with revoked_at set keeps it set, no active row appears
\* for a revoked sale id, and a premium_subscriptions row with status revoked
\* keeps that status, also when a sale for the same key is delivered later.
C15_Theorem ==
    [][/\ \A k \in 1..Len(subscribers) :
             subscribers[k].revoked_at # 0
                => /\ Len(subscribers') >= k
                   /\ subscribers'[k].revoked_at # 0
       /\ \A key \in RevokedSaleIds :
             \A k \in 1..Len(subscribers') :
                subscribers'[k].sale_id = key => subscribers'[k].revoked_at # 0
       /\ \A k \in 1..Len(premium_subscriptions) :
             premium_subscriptions[k].status = "revoked"
                => /\ Len(premium_subscriptions') >= k
                   /\ premium_subscriptions'[k].status = "revoked"]_vars

\* a refund revoked the subscriber of a sale id; the sale was then delivered
\* again and upserted; the subscriber is still revoked
C15_Witness ==
    \E i, j \in Slots :
        /\ i # j /\ Done(i) /\ Done(j) /\ Sequential(i, j)
        /\ RefundRef(i) # Null /\ Did(i, "subscriber_revoke")
        /\ Did(j, "subscriber_upsert") /\ GrantedKey(j) = RefundRef(i)
        /\ RefundRef(j) = Null
        /\ \E k \in 1..Len(subscribers) :
              subscribers[k].sale_id = RefundRef(i) /\ subscribers[k].revoked_at # 0

(***************************************************************************)
(* C16  What is answered with a status that is not 2xx                     *)
(***************************************************************************)
WrongMethod(i) == reqs[i].method # "POST"

\* the body of delivery i is declared as JSON and does not parse
UnparseableJson(i) ==
    CASE reqs[i].provider = "stripe" -> reqs[i].raw.kind = "garbage"
      [] reqs[i].provider = "gumroad" ->
           reqs[i].ct = "application/json" /\ reqs[i].raw.kind # "json"
      [] reqs[i].provider = "payhip" -> reqs[i].raw.kind = "garbage"

\* C16 as claimed: a delivery is answered with a status that is not 2xx only
\* when the method is wrong, the signature is missing or invalid, or the body
\* is declared JSON and does not parse.
C16_Claim ==
    \A i \in Slots :
        (Done(i) /\ ~Is2xx(reqs[i].resp))
            => WrongMethod(i) \/ ~SignatureValid(i) \/ UnparseableJson(i)

(***************************************************************************)
(* C17  Methods other than POST                                            *)
(***************************************************************************)
\* C17 as claimed: a request with a method other than POST is answered 405
\* and has no effect, except that the Stripe function answers GET with
\* {status:"ok"}.
C17_Claim ==
    \A i \in Slots :
        (Done(i) /\ reqs[i].method # "POST")
            => IF reqs[i].provider = "stripe" /\ reqs[i].method = "GET"
               THEN reqs[i].resp = ok([status |-> "ok"]) /\ NoSideEffects(i)
               ELSE reqs[i].resp.status = 405 /\ NoSideEffects(i)

(***************************************************************************)
(* C18  A sale without the fields that identify the buyer                  *)
(***************************************************************************)
\* delivery i is a verified sale event that lacks the email (Stripe) or the
\* sale id or the email (Gumroad)
MalformedSale(i) ==
    Started(i) /\
    CASE reqs[i].provider = "stripe" ->
           /\ StripeEvent(i)
           /\ reqs[i].raw.evt.type \in StripeAllowList
           /\ ~Sendable(i)
      [] reqs[i].provider = "gumroad" ->
           /\ reqs[i].method = "POST" /\ SignatureValid(i)
           /\ ~parseBody(reqs[i].ct, reqs[i].raw).threw
           /\ actionOf(PayloadOf(i)) = "sale"
           /\ \/ Str(Coalesce(PayloadOf(i).sale_id, Coalesce(PayloadOf(i).id, ""))) = ""
              \/ Str(Coalesce(PayloadOf(i).email,
                              Coalesce(PayloadOf(i).purchaser_email, ""))) = ""
      [] OTHER -> FALSE

EntitlementSteps == {"customer_upsert", "subscription_upsert", "subscriber_upsert",
                     "subscriber_update", "subscriber_revoke"}

\* C18 as claimed: such a delivery is answered 200 with an indication that it
\* was skipped, writes no entitlement or subscriber and notifies nobody.
C18_Claim ==
    \A i \in Slots :
        (MalformedSale(i) /\ Done(i))
            => /\ reqs[i].resp.status = 200
               /\ reqs[i].resp \in
                     {ok([skipped |-> TRUE, reason |-> "no_email"]),
                      ok([received |-> TRUE, duplicate |-> TRUE]),
                      JsonResponse(200, [ok |-> FALSE, error |-> "missing_sale_or_email"])}
               /\ SeqToSet(reqs[i].trace) \cap (EntitlementSteps \cup EffectSteps) = {}
               /\ ~Did(i, "notification_insert")

(***************************************************************************)
(* C19  A Stripe payload without an event id                               *)
(***************************************************************************)
\* C19 as claimed: a verified Stripe payload that carries no event id causes
\* no customer write, no subscription write and no email send.
C19_Claim ==
    \A i \in Slots :
        (StripeEvent(i) /\ EventId(i) = Null)
            => /\ ~Did(i, "customer_upsert")
               /\ ~Did(i, "subscription_upsert")
               /\ ~Did(i, "email_send")

(***************************************************************************)
(* C20  A failure of the email provider                                    *)
(***************************************************************************)
\* what Brevo did with the email delivery i sent: TRUE when it accepted it
BrevoAccepted(i) ==
    \E k \in 1..Len(outbox) :
        outbox[k].kind = "email" /\ outbox[k].by = i /\ outbox[k].ok

\* the onboarding_emails row delivery i inserts, given what Brevo did
NotificationRow(i) ==
    LET n == normalizeStripeEvent(reqs[i].raw.evt)
    IN  [to_email |-> reqs[i].loc.buyerEmail, product_name |-> n.productName,
         event_id |-> n.eventId,
         stripe_checkout_session_id |-> n.checkoutSessionId,
         stripe_customer_id |-> n.customerId,
         status |-> IF BrevoAccepted(i) THEN "sent" ELSE "error",
         error_message |-> IF BrevoAccepted(i) THEN Null ELSE "Brevo error 500"]

Attempts(e) ==
    {k \in 1..Len(outbox) :
        /\ outbox[k].kind = "email"
        /\ EventId(outbox[k].by) = e}

\* the deliveries of event id e that went on without a ledger answer: the
\* upsert failed, or the database is not configured
Unledgered(e) ==
    {i \in PastLedger(e) : Did(i, "ledger_error") \/ ~cfg.db}

\* C21 as claimed: over all deliveries of one event id at most one email send
\* attempt is made.
C21_Original ==
    \A e \in StripeEventIds : Cardinality(Attempts(e)) <= 1

\* C21 amended: a delivery makes at most one send attempt, whether it failed
\* or not; over all deliveries of one event id there is at most one attempt
\* by the delivery that inserted the ledger row, plus at most one by each
\* delivery that went on without a ledger answer.  A delivery that follows a
\* failed attempt and is answered by the ledger makes no attempt.
C21_Theorem ==
    /\ \A i \in Slots : Started(i) => Count(i, "email_send") <= 1
    /\ \A e \in StripeEventIds :
          /\ Cardinality(Attempts(e)) <=
                Cardinality({i \in PastLedger(e) : Did(i, "ledger_insert")})
                    + Cardinality(Unledgered(e))
          /\ Cardinality({i \in PastLedger(e) : Did(i, "ledger_insert")}) <= 1
          /\ \A k \in Attempts(e) : \A j \in PastLedger(e) :
                (~outbox[k].ok /\ j # outbox[k].by /\ LedgerOk(j))
                    => ~Did(j, "email_send")

\* Brevo refused the only attempt for an event; the event was delivered again
\* after the answer and the second delivery attempted nothing
C21_Witness ==
    \E e \in StripeEventIds : \E k \in Attempts(e) : \E j \in PastLedger(e) :
        /\ ~outbox[k].ok
        /\ j # outbox[k].by
        /\ Sequential(outbox[k].by, j)
        /\ Done(j) /\ LedgerOk(j)
        /\ Cardinality(Attempts(e)) = 1

(***************************************************************************)
(* C22  onboarding_emails is an append-only record of the attempts         *)
(***************************************************************************)
\* the email send attempts made so far
EmailAttempts == {k \in 1..Len(outbox) : outbox[k].kind = "email"}

\* the deliveries whose onboarding_emails insert returned without an error
Recorded == {i \in Slots : Did(i, "notification_insert") /\ ~Did(i, "notification_error")}

\* table t2 is table t1 with rows added at the end
Extends(t1, t2) == Len(t2) >= Len(t1) /\ SubSeq(t2, 1, Len(t1)) = t1

\* C22 as claimed: the number of onboarding_emails rows always equals the
\* number of email send attempts made so far.
C22_Original == Len(onboarding_emails) = Cardinality(EmailAttempts)

\* every row stands for an attempt made before it: one row per delivery whose
\* insert succeeded, written after that delivery's send attempt
RowsFollowAttempts ==
    /\ Len(onboarding_emails) = Cardinality(Recorded)
    /\ Len(onboarding_emails) <= Cardinality(EmailAttempts)
    /\ \A i \in Slots :
          Did(i, "notification_insert")
              => /\ Count(i, "notification_insert") = 1
                 /\ Before(i, "email_send", "notification_insert")
                 /\ cfg.db

\* an attempt is left without a row only while its delivery is not answered,
\* when the insert failed, or when the database is not configured
RowsComplete ==
    \A i \in Slots :
        (Done(i) /\ Did(i, "email_send") /\ cfg.db)
            => Did(i, "notification_insert")

\* C22 amended: rows are only ever appended, never changed or removed; there
\* is one row per delivery whose insert succeeded, written after that
\* delivery's send attempt, so the rows never outnumber the attempts; and
\* with the database configured every answered delivery that attempted a send
\* issued the insert, so that the two numbers are equal once all deliveries
\* are answered and no insert failed.
C22_Theorem ==
    /\ [](RowsFollowAttempts /\ RowsComplete)
    /\ []((cfg.db /\ (\A i \in Slots : Started(i) => Done(i))
                  /\ (\A i \in Slots : ~Did(i, "notification_error")))
            => Len(onboarding_emails) = Cardinality(EmailAttempts))
    /\ [][Extends(onboarding_emails, onboarding_emails')]_vars

\* two deliveries each attempted a send and each appended its row
C22_Witness ==
    /\ Cardinality(EmailAttempts) = 2
    /\ Len(onboarding_emails) = 2
    /\ \A i \in Slots : Done(i) /\ Did(i, "notification_insert")

(***************************************************************************)
(* C23  verifyStripeSignature                                              *)
(***************************************************************************)
\* the t value of a header: that of its last "t" element, null without one
TOf(header) ==
    LET ts == {a \in 1..Len(header) : header[a].k = "t"}
    IN  IF ts = {} THEN Null
        ELSE header[CHOOSE a \in ts : \A b \in ts : b <= a].v

V1Of(header) == {header[a].v : a \in {b \in 1..Len(header) : header[b].k = "v1"}}

HmacSecret(f) ==
    IF f = "gumroad.verifyHmac" THEN cfg.gumroadWebhookSecret ELSE cfg.payhipApiKey

\* C24: verifyHmac(req, rawBody) of the Gumroad and the Payhip function is
\* true exactly when the secret is configured, the signature header is
\* present, and its value is the hex HMAC-SHA256 of the raw body under that
\* secret, in either letter case.
C24_Theorem ==
    \A f \in {"gumroad.verifyHmac", "payhip.verifyHmac"} :
        Returned(f) =>
            LET header == call.args[1]
                rawBody == call.args[2]
            IN  call.out = (/\ Truthy(HmacSecret(f))
                            /\ header # <<>>
                            /\ header[1].key = HmacSecret(f)
                            /\ header[1].msg = rawBody)

\* a digest written in upper-case hex is accepted
C24_Witness ==
    /\ Returned("gumroad.verifyHmac")
    /\ call.out
    /\ call.args[1][1].uc
    /\ call.args[1][1].key = GumroadSecret

(***************************************************************************)
(* C25  The buyer email of a Stripe event                                  *)
(***************************************************************************)
RECURSIVE FirstNonEmpty(_)
\* the first value of a chain that is neither absent nor empty
FirstNonEmpty(chain) ==
    IF chain = <<>> THEN Null
    ELSE IF Truthy(Head(chain)) THEN Head(chain)
    ELSE FirstNonEmpty(Tail(chain))

\* an address, or null when nothing usable was found
Resolved(x) == IF Truthy(x) THEN x ELSE Null

\* the charge-level emails of a charge-style event
ChargeEmails(evt) ==
    IF evt.type = "payment_intent.succeeded"
    THEN {x \in {evt.charge0_email, evt.lc_billing_email, evt.receipt_email} : Truthy(x)}
    ELSE {}

\* C25 as claimed: the buyer email of a Stripe event is the first non-empty
\* value of: customer_details.email, customer_email, customer.email, then for
\* a charge-style event the charge's billing-details email or receipt email;
\* an empty value does not stop a later non-empty one.
C25_Claim ==
    Returned("buyerEmail") =>
        LET evt == call.args[1]
            session == FirstNonEmpty(<<evt.cd_email, evt.customer_email,
                                       evt.customer_obj_email>>)
        IN  IF session # Null THEN Resolved(call.out) = session
            ELSE IF ChargeEmails(evt) # {} THEN Resolved(call.out) \in ChargeEmails(evt)
            ELSE Resolved(call.out) = Null

(***************************************************************************)
(* C26  The buyer email of a marketplace sale                              *)
(***************************************************************************)
\* C26 as claimed: the buyer email of a Gumroad or Payhip sale is the first
\* non-empty value of: the purchaser email member, the member named email,
\* the email of the nested customer object.
C26_Claim ==
    \A f \in {"gumroad.saleEmail", "payhip.saleEmail"} :
        Returned(f) =>
            LET p == call.args[1]
            IN  Resolved(call.out) =
                    FirstNonEmpty(<<p.purchaser_email, p.email, p.customer_email>>)

(***************************************************************************)
(* C27  Normalizing a completed checkout                                   *)
(***************************************************************************)
\* The handler treats event evt as a completed sale: once past the ledger it
\* goes on to the customer and subscription upserts and to the send.  (The
\* normalized record has no kind member; the kind of an event is what the
\* handler does for its type.)
HandledAsSale(evt) ==
    LET r == [NewReq("stripe", "POST", <<>>, "application/json", StripeBody(evt))
                 EXCEPT !.pc = "ledger", !.loc = [evt |-> evt, inserted |-> TRUE]]
    IN  cfg.db /\ StripeAfterLedger(r).pc = "customer"

\* C27: a checkout.session.completed payload with customer_details.email =
\* "a@b.com" and metadata.plan_id = "premium_telegram" is normalized to email
\* "a@b.com" and planId "premium_telegram", and is handled as a completed
\* sale, whatever its other members are.
C27_Theorem ==
    (/\ Returned("normalizeStripeEvent")
     /\ call.args[1].type = "checkout.session.completed"
     /\ call.args[1].cd_email = "a@b.com"
     /\ call.args[1].meta_plan_id = "premium_telegram")
        => /\ call.out.email = "a@b.com"
           /\ call.out.planId = "premium_telegram"
           /\ HandledAsSale(call.args[1])

\* such a payload that also names a product and a top-level customer email
C27_Witness ==
    /\ Returned("normalizeStripeEvent")
    /\ call.args[1].type = "checkout.session.completed"
    /\ call.args[1].cd_email = "a@b.com"
    /\ call.args[1].meta_plan_id = "premium_telegram"
    /\ call.args[1].meta_product_name = "TrendDrop Pro"
    /\ call.args[1].customer_email = "top@x.com"
    /\ call.out.email = "a@b.com"
    /\ call.out.planId = "premium_telegram"

(***************************************************************************)
(* C28  One customers row per payer                                        *)
(***************************************************************************)
\* rows a and b of customers stand for the same payer: the same Stripe
\* customer id, or no customer id on either and the same email
SamePayer(a, b) ==
    \/ /\ customers[a].stripe_customer_id # Null
       /\ customers[a].stripe_customer_id = customers[b].stripe_customer_id
    \/ /\ customers[a].stripe_customer_id = Null
       /\ customers[b].stripe_customer_id = Null
       /\ customers[a].email = customers[b].email

\* C28 as claimed: customers holds one row per payer identity: no two rows
\* with the same customer id, and no two rows without a customer id that
\* carry the same email.
C28_Claim ==
    \A a, b \in 1..Len(customers) : SamePayer(a, b) => a = b

(***************************************************************************)
(* C29  One entitlement record per key                                     *)
(***************************************************************************)
\* no two premium_subscriptions rows with the same checkout session id, no
\* two subscribers rows with the same sale id
OneRecordPerKey ==
    /\ \A a, b \in 1..Len(premium_subscriptions) :
          (/\ premium_subscriptions[a].stripe_checkout_session_id # Null
           /\ premium_subscriptions[a].stripe_checkout_session_id =
                 premium_subscriptions[b].stripe_checkout_session_id) => a = b
    /\ \A a, b \in 1..Len(subscribers) :
          (subscribers[a].sale_id # Null /\ subscribers[a].sale_id = subscribers[b].sale_id)
              => a = b

\* the key of the entitlement that the sale upsert of delivery i is for
SaleKey(i) ==
    IF reqs[i].provider = "stripe" THEN reqs[i].loc.normalized.checkoutSessionId
    ELSE OrElse(reqs[i].loc.sale_id, Null)

\* this step is the sale upsert of delivery i, and the call did not fail
SaleUpsertReturns(i) ==
    /\ reqs[i].pc \in {"subscription", "g_upsert", "p_upsert"}
    /\ reqs'[i].pc # reqs[i].pc
    /\ faults' = faults

\* C29 as claimed: there is at most one entitlement record per checkout
\* session id (Stripe) or sale id (Gumroad, Payhip), and a sale upsert for a
\* key leaves exactly one record for that key, which carries the data of
\* the event and is active.
C29_Claim ==
    /\ []OneRecordPerKey
    /\ [][\A i \in Slots :
            (SaleUpsertReturns(i) /\ SaleKey(i) # Null)
                => IF reqs[i].provider = "stripe"
                   THEN \E k \in 1..Len(premium_subscriptions') :
                           /\ premium_subscriptions'[k].stripe_checkout_session_id = SaleKey(i)
                           /\ premium_subscriptions'[k].status = "active"
                   ELSE \E k \in 1..Len(subscribers') :
                           /\ subscribers'[k].sale_id = SaleKey(i)
                           /\ subscribers'[k].email = reqs[i].loc.email
                           /\ subscribers'[k].revoked_at = 0]_vars

(***************************************************************************)
(* C30  The ledger only grows                                              *)
(***************************************************************************)
\* the ledger rows of event id e
LedgerRows(e) == {row \in stripe_event_ledger : row.event_id = e}

\* C30: a ledger row, once inserted, stays as it is in every later step of
\* every handler; there is one row per event id, so a later delivery of the
\* id, also under another event type, leaves the stored row and its event
\* type unchanged.
C30_Theorem ==
    /\ [](\A e \in StripeEventIds : Cardinality(LedgerRows(e)) <= 1)
    /\ [][stripe_event_ledger \subseteq stripe_event_ledger']_vars

\* an event id was delivered again under another event type and answered as
\* a duplicate; the ledger holds the row of the first delivery
C30_Witness ==
    \E i, j \in Slots :
        /\ i # j /\ SameEvent(i, j) /\ Sequential(i, j) /\ Done(j)
        /\ reqs[i].raw.evt.type # reqs[j].raw.evt.type
        /\ Did(i, "ledger_insert") /\ Did(j, "ledger_duplicate")
        /\ LedgerRows(EventId(i)) =
              {[event_id |-> EventId(i), event_type |-> reqs[i].raw.evt.type]}

(***************************************************************************)
(* C31  A refund revokes the entitlement of the sale it names              *)
(*                                                                         *)
(* The Payhip function after the sale PSale (order ord_1 of a@b.com) has   *)
(* been handled: the buyer may order again, and either order may be        *)
(* refunded.                                                               *)
(***************************************************************************)
\* a later order of the buyer of PSale
PSaleNext == [PayhipPayload("sale") EXCEPT !.id = "ord_3", !.email = "a@b.com"]

\* payhip-webhook lines 19-26, 42: the table once PSale has been upserted
AfterPSale ==
    UpsertSubscriber(<<>>, "email", SubscriberRow("ord_1", "a@b.com", "payhip"),
                     {"sale_id", "email", "source"})

\* <<method, header, raw>>
PayhipLaterInputs ==
    {<<"POST", <<hmacSHA256Hex(PayhipKey, Json(p))>>, Json(p)>> :
        p \in {PSale, PSaleNext, PRefund, PRefundCompleted, PPing}}
    \cup {<<"POST", <<>>, Json(PRefund)>>}

PayhipLaterNext ==
    \E i \in Slots :
        \/ \E in \in PayhipLaterInputs : PayhipDeliver(i, in[1], in[2], in[3])
        \/ \E res \in Outcomes : PayhipUpsert(i, res)
        \/ \E res \in Outcomes : PayhipRevoke(i, res)

InitPayhipLater ==
    /\ fn = "payhip"
    /\ cfg = Configured
    /\ reqs = [i \in Slots |-> Idle]
    /\ stripe_event_ledger = {}
    /\ customers = <<>>
    /\ premium_subscriptions = <<>>
    /\ onboarding_emails = <<>>
    /\ subscribers = AfterPSale
    /\ outbox = <<>>
    /\ clock = 0
    /\ faults = 0
    /\ call = NoCall

SpecPayhipLater == InitPayhipLater /\ [][PayhipLaterNext]_vars

\* the entitlement of the buyer is revoked
BuyerRevoked(email) ==
    \A k \in 1..Len(subscribers) :
        subscribers[k].email = email => subscribers[k].revoked_at # 0

\* C31 as claimed: once a verified refund that names order ord_1, the order
\* PSale recorded, has been handled with every storage call succeeding, the
\* entitlement that was created for that order (the row of a@b.com) is
\* revoked, also when another order of the same buyer was recorded in between.
C31_Claim ==
    \A i \in Slots :
        (/\ Done(i) /\ faults = 0
         /\ RefundRef(i) = "ord_1"
         /\ Did(i, "subscriber_revoke")
         /\ \A j \in Slots : (j # i /\ Started(j)) => Sequential(j, i))
            => BuyerRevoked("a@b.com")

(***************************************************************************)
(* C32  Optional side calls of the Gumroad sale flow fail open             *)
(***************************************************************************)
\* delivery i is a Gumroad sale whose subscribers upsert succeeded
SaleStored(i) ==
    /\ Started(i) /\ reqs[i].provider = "gumroad"
    /\ Did(i, "subscriber_upsert") /\ ~Did(i, "subscriber_error")

\* a side call made for delivery i failed
SideCallFailed(i, kind) ==
    \E n \in 1..Len(outbox) :
        outbox[n].by = i /\ outbox[n].kind = kind /\ ~outbox[n].ok

\* C32: once the subscribers upsert of a Gumroad sale has succeeded, the row
\* of the sale stays in the table and the request ends with status 200 and
\* ok:true, whether the chat alert, the auto-invite and the attachment of
\* the signed links succeed or fail.
C32_Theorem ==
    \A i \in Slots :
        SaleStored(i)
            => /\ \E k \in 1..Len(subscribers) : subscribers[k].sale_id = reqs[i].loc.sale_id
               /\ Done(i) => /\ reqs[i].resp.status = 200
                             /\ reqs[i].resp.body.ok = TRUE

\* a sale answered ok:true after its chat alert failed
C32_Witness ==
    \E i \in Slots :
        /\ SaleStored(i) /\ Done(i)
        /\ SideCallFailed(i, "telegram_alert")
        /\ reqs[i].resp.body.ok = TRUE

(***************************************************************************)
(* C33  A Gumroad sale delivered again                                     *)
(***************************************************************************)
\* the deliveries of the Gumroad sale sale_id for which a side call of the
\* given kind was made
SideCallsFor(sale_id, kind) ==
    {i \in Slots :
        /\ Started(i) /\ reqs[i].provider = "gumroad"
        /\ Did(i, "subscriber_upsert")
        /\ reqs[i].loc.sale_id = sale_id
        /\ \E n \in 1..Len(outbox) : outbox[n].by = i /\ outbox[n].kind = kind}

\* C33 as claimed: however often a Gumroad sale is delivered, the table has
\* at most one row of its sale id, and the chat alert and the auto-invite are
\* made for one delivery of that sale id only.
C33_Claim ==
    \A i \in Slots :
        SaleStored(i)
            => /\ Cardinality({k \in 1..Len(subscribers) :
                                 subscribers[k].sale_id = reqs[i].loc.sale_id}) = 1
               /\ Cardinality(SideCallsFor(reqs[i].loc.sale_id, "telegram_alert")) <= 1
               /\ Cardinality(SideCallsFor(reqs[i].loc.sale_id, "auto_invite")) <= 1

(***************************************************************************)
(* C34  What precedes the onboarding email                                 *)
(***************************************************************************)
\* lines 415-417: shouldProcessDb
CheckoutTypes == {"checkout.session.completed", "payment_intent.succeeded"}

\* both upserts of delivery i were attempted, customer first, before its send
UpsertsBeforeSend(i) ==
    /\ Before(i, "customer_upsert", "subscription_upsert")
    /\ Before(i, "subscription_upsert", "email_send")

\* C34 as claimed: with the database configured, every Stripe delivery that
\* gets as far as sending the onboarding email attempted the customer upsert
\* and the subscription upsert earlier in the same request.
C34_Original ==
    \A i \in Slots :
        (Did(i, "email_send") /\ reqs[i].provider = "stripe" /\ cfg.db)
            => UpsertsBeforeSend(i)

\* C34 amended: a Stripe delivery that sends the onboarding email carries one
\* of the three event types of the allow-list.  With the database configured
\* and the type checkout.session.completed or payment_intent.succeeded, the
\* customer upsert and then the subscription upsert were attempted before the
\* send, and a subscription upsert that succeeded left the row of the checkout
\* session with status active.  For invoice.paid the email is sent with no
\* upsert attempted at all.
C34_Theorem ==
    \A i \in Slots :
        (Did(i, "email_send") /\ reqs[i].provider = "stripe")
            => LET type == reqs[i].loc.evt.type
                   ref == reqs[i].loc.normalized.checkoutSessionId
               IN  /\ type \in CheckoutTypes \cup {"invoice.paid"}
                   /\ (cfg.db /\ type \in CheckoutTypes)
                        => /\ UpsertsBeforeSend(i)
                           /\ ~Did(i, "subscription_error")
                                => \E k \in 1..Len(premium_subscriptions) :
                                      /\ premium_subscriptions[k].stripe_checkout_session_id = ref
                                      /\ premium_subscriptions[k].status = "active"
                   /\ (~cfg.db \/ type = "invoice.paid")
                        => ~Did(i, "customer_upsert") /\ ~Did(i, "subscription_upsert")

\* a checkout answered after both upserts and the send, the database configured
C34_Witness ==
    \E i \in Slots :
        /\ Done(i) /\ reqs[i].provider = "stripe" /\ cfg.db
        /\ Did(i, "email_send")
        /\ reqs[i].loc.evt.type = "checkout.session.completed"
        /\ UpsertsBeforeSend(i)

(***************************************************************************)
(* C35  The order of the steps of one Stripe request                       *)
(***************************************************************************)
\* the place of a step in the handler (lines 350-495)
Rank(step) ==
    CASE step = "read_raw" -> 1
      [] step \in {"verify", "verified"} -> 2
      [] step = "parse" -> 3
      [] step \in {"ledger_insert", "ledger_duplicate", "ledger_error"} -> 4
      [] step = "normalize" -> 5
      [] step \in {"customer_upsert", "customer_error"} -> 6
      [] step \in {"subscription_upsert", "subscription_error"} -> 7
      [] step = "email_send" -> 8
      [] step \in {"notification_insert", "notification_error"} -> 9
      [] step = "respond" -> 10

\* the steps of delivery i were taken in the order of the handler
InOrder(i) ==
    LET t == reqs[i].trace
    IN  \A a, b \in 1..Len(t) : a < b => Rank(t[a]) <= Rank(t[b])

\* delivery i has made its ledger upsert (whatever came back)
LedgerConsulted(i) ==
    Did(i, "ledger_insert") \/ Did(i, "ledger_duplicate") \/ Did(i, "ledger_error")

\* a step that changes premium_subscriptions, the outbox or onboarding_emails
\* is a step of a request that is past what the handler puts before it
WritesInOrder(needLedger) ==
    /\ premium_subscriptions' # premium_subscriptions
          => \E i \in Slots : /\ reqs[i].pc = "subscription" /\ reqs'[i].pc = "send"
                              /\ LedgerConsulted(i)
    /\ outbox' # outbox
          => \E i \in Slots : /\ reqs[i].pc = "send" /\ reqs'[i].pc = "notify"
                              /\ needLedger => LedgerConsulted(i)
    /\ onboarding_emails' # onboarding_emails
          => \E i \in Slots : /\ reqs[i].pc = "notify" /\ Done(i)'
                              /\ Did(i, "email_send")
                              /\ \E n \in 1..Len(outbox) : outbox[n].by = i

StripeInOrder == \A i \in Slots : (Started(i) /\ reqs[i].provider = "stripe") => InOrder(i)

\* C35 as claimed: the steps of a Stripe request follow the order signature
\* verification, ledger, normalization, upserts, send, notification row,
\* response; no subscription write and no send is made by a request that has
\* not consulted the ledger, and the notification row is appended only after
\* the send of the request has returned.
C35_Original == [](StripeInOrder) /\ [][WritesInOrder(TRUE)]_vars

\* C35 amended: the same, the ledger being consulted before the send whenever
\* the database is configured; with no database there is no ledger step and
\* the send is made without it.
C35_Theorem == [](StripeInOrder) /\ [][WritesInOrder(cfg.db)]_vars

\* a checkout that went through every step and was answered
C35_Witness ==
    \E i \in Slots :
        /\ Done(i) /\ reqs[i].provider = "stripe"
        /\ reqs[i].trace = <<"read_raw", "verify", "verified", "parse", "ledger_insert",
                             "normalize", "customer_upsert", "subscription_upsert",
                             "email_send", "notification_insert", "respond">>
        /\ Len(onboarding_emails) > 0

(***************************************************************************)
(* C36  Who passes the Gumroad authentication                              *)
(***************************************************************************)
\* delivery i reaches the authentication: a POST whose body parsed and is no ping
ReachesAuth(i) ==
    /\ Started(i) /\ reqs[i].provider = "gumroad" /\ reqs[i].method = "POST"
    /\ ~parseBody(reqs[i].ct, reqs[i].raw).threw
    /\ actionOf(PayloadOf(i)) # "ping"

\* the secret and the seller id the body of delivery i carries agree with
\* those configured, as far as any are configured
BodyMatches(i) ==
    LET p == PayloadOf(i)
    IN  /\ Truthy(cfg.gumroadWebhookSecret)
            => Coalesce(p.secret, p.cf_secret) = cfg.gumroadWebhookSecret
        /\ Truthy(cfg.gumroadSellerId)
            => Coalesce(p.seller_id, p.seller_obj_id) = cfg.gumroadSellerId

\* delivery i went on to the dispatch on its action
Processed(i) == reqs[i].pc # "done" \/ reqs[i].resp # Unauthorized200

\* C36: with Gumroad authentication required, a non-ping delivery is processed
\* exactly when its HMAC header verifies or its body secret and seller id
\* match what is configured; every other one is answered 200 {ok:false,
\* error:"unauthorized"} and makes no write and no outbound call.
C36_Theorem ==
    \A i \in Slots :
        (ReachesAuth(i) /\ cfg.requireGumroadAuth)
            => /\ Processed(i) <=> (SignatureValid(i) \/ BodyMatches(i))
               /\ ~Processed(i) => NoSideEffects(i)

\* Both cases reached: a sale with no signature header stored on the strength
\* of its body secret, next to a delivery answered unauthorized
C36_Witness ==
    \E i, j \in Slots :
        /\ ReachesAuth(i) /\ ReachesAuth(j) /\ cfg.requireGumroadAuth
        /\ Truthy(cfg.gumroadWebhookSecret)
        /\ reqs[i].header = <<>> /\ BodyMatches(i) /\ SaleStored(i)
        /\ Done(j) /\ reqs[j].resp = Unauthorized200

(***************************************************************************)
(* C37  No exception leaves a handler                                      *)
(***************************************************************************)
\* C37 as claimed: whatever the storage, email and chat calls return, and
\* also with the database client not configured, a delivery that has ended
\* was answered by the handler's own code: no exception was left to the
\* server to answer.
C37_Claim ==
    \A i \in Slots :
        Done(i) => /\ reqs[i].resp # Unhandled
                   /\ reqs[i].resp # NoResp

(***************************************************************************)
(* C38  One domain action per Payhip delivery                              *)
(***************************************************************************)
\* C38 as claimed: whatever its event name, a Payhip delivery upserts a
\* subscriber or revokes one, never both.
C38_Claim ==
    \A i \in Slots :
        (Started(i) /\ reqs[i].provider = "payhip")
            => ~(Did(i, "subscriber_upsert") /\ Did(i, "subscriber_revoke"))

(***************************************************************************)
(* The invite-claim endpoint (src/unnamed/part_002).  A subscriber asks    *)
(* for the chat invite with {email, purchase_id}; the endpoint reads the   *)
(* subscribers row, creates an invite link and then sets claimed_at.       *)
(* claimed_at = 0 is NULL.                                                 *)
(***************************************************************************)
ClaimRow(id, email, purchase_id, status) ==
    [id |-> id, email |-> email, purchase_id |-> purchase_id, status |-> status,
     claimed_at |-> 0]

\* the subscribers table when the endpoint is called: a paid subscriber who
\* has not claimed yet, alone or next to one whose status is not paid
ClaimTables ==
    { <<ClaimRow(1, "a@b.com", "p_1", "paid")>>,
      <<ClaimRow(1, "a@b.com", "p_1", "paid"), ClaimRow(2, "c@d.com", "p_2", "refunded")>> }

\* line 22: (body?.email || "").toString().trim().toLowerCase()
claimEmail(e) ==
    CASE e = " A@B.com " -> "a@b.com"
      [] OTHER -> Str(e)

ClaimBody(email, purchase_id) == [email |-> email, purchase_id |-> purchase_id]

ClaimGarbage == [kind |-> "garbage", p |-> ClaimBody(Null, Null)]

\* <<method, raw>>
ClaimInputs ==
    {<<"POST", Json(ClaimBody(e, p))>> :
        e \in {"a@b.com", " A@B.com "}, p \in {Null, "p_1"}}
    \cup {<<"POST", Json(ClaimBody("a@b.com", "p_9"))>>,
          <<"POST", Json(ClaimBody("c@d.com", Null))>>,
          <<"POST", Json(ClaimBody("x@y.com", Null))>>,
          <<"POST", Json(ClaimBody(Null, "p_1"))>>,
          <<"POST", ClaimGarbage>>,
          <<"GET", ClaimGarbage>>}

ClaimError(status, msg) == Response(status, [error |-> msg])

\* Lines 19-27: up to the lookup
ClaimStart(method, raw) ==
    LET r0 == NewReq("claim", method, <<>>, "application/json", raw)
        email == claimEmail(raw.p.email)
        purchase_id == Str(raw.p.purchase_id)
    IN  IF method # "POST" THEN Finish(r0, Response(405, [text |-> "Method Not Allowed"]))
        ELSE IF raw.kind # "json"
        THEN \* req.json() throws, caught at line 50
             Finish(Step(Step(r0, "throw"), "caught"), ClaimError(500, "exception"))
        ELSE IF email = "" THEN Finish(r0, ClaimError(400, "email required"))
        ELSE IF ~cfg.db THEN Finish(r0, ClaimError(500, "supabase not configured"))
        ELSE [r0 EXCEPT !.pc = "c_lookup",
                        !.loc = [email |-> email, purchase_id |-> purchase_id,
                                 subs |-> 0, invite_link |-> 0]]

ClaimDeliver(i, method, raw) ==
    /\ reqs[i].pc = "idle"
    /\ \A j \in Slots : j < i => Started(j)
    /\ reqs' = [reqs EXCEPT ![i] =
            [ClaimStart(method, raw) EXCEPT !.doneBefore = {j \in Slots : Done(j)}]]
    /\ UNCHANGED <<call, cfg, dbvars, outbox, clock, faults, fn>>

\* the rows the query of lines 29-30 selects
ClaimMatches(email, purchase_id) ==
    {k \in 1..Len(subscribers) :
        /\ subscribers[k].email = email
        /\ purchase_id # "" => subscribers[k].purchase_id = purchase_id}

\* Lines 29-39: select id, status, claimed_at ... limit(1).maybeSingle(), and
\* the checks on the row that was read
ClaimLookup(i, res) ==
    LET r == reqs[i]
        r1 == Step(r, "lookup")
        hits == ClaimMatches(r.loc.email, r.loc.purchase_id)
    IN  /\ r.pc = "c_lookup"
        /\ Fault(res)
        /\ IF res = "error"
           THEN reqs' = [reqs EXCEPT ![i] = Finish(r1, ClaimError(500, "db error"))]
           ELSE IF hits = {}
           THEN reqs' = [reqs EXCEPT ![i] = Finish(r1, ClaimError(404, "no account found"))]
           ELSE \E k \in hits :
                  LET subs == subscribers[k]
                  IN  reqs' = [reqs EXCEPT ![i] =
                        IF subs.status # "paid"
                        THEN Finish(r1, ClaimError(403, subs.status))
                        ELSE IF subs.claimed_at # 0
                        THEN Finish(r1, ClaimError(409, "already claimed"))
                        ELSE IF ~Truthy(cfg.telegramBotToken)
                                \/ ~Truthy(cfg.telegramCommunityChatId)
                        THEN Finish(r1, ClaimError(500, "telegram not configured"))
                        ELSE [r1 EXCEPT !.pc = "c_invite", !.loc.subs = subs.id]]
        /\ UNCHANGED <<call, cfg, dbvars, outbox, clock>>

\* Lines 5-16, 41: createInviteLink; a refusal of the chat platform throws
\* and is caught at line 50.  Every link that is created is a new one.
ClaimInvite(i, res) ==
    LET r == reqs[i]
        r1 == Step(r, "create_invite")
        link == Len(outbox) + 1
    IN  /\ r.pc = "c_invite"
        /\ Fault(res)
        /\ outbox' = Append(outbox, [kind |-> "invite_link", to |-> r.loc.subs,
                                     product |-> Null, by |-> i, ok |-> res = "ok"])
        /\ reqs' = [reqs EXCEPT ![i] =
                IF res = "ok"
                THEN [r1 EXCEPT !.pc = "c_update", !.loc.invite_link = link]
                ELSE Finish(Step(Step(r1, "throw"), "caught"),
                            ClaimError(500, "exception"))]
        /\ UNCHANGED <<call, cfg, dbvars, clock>>

\* Lines 42-48: subscribers.update({claimed_at}).eq("id", subs.id), then the link
ClaimUpdate(i, res) ==
    LET r == reqs[i]
        r1 == Step(r, "claim_update")
    IN  /\ r.pc = "c_update"
        /\ Fault(res)
        /\ IF res = "ok"
           THEN /\ subscribers' =
                     [k \in 1..Len(subscribers) |->
                         IF subscribers[k].id = r.loc.subs
                         THEN [subscribers[k] EXCEPT !.claimed_at = clock + 1]
                         ELSE subscribers[k]]
                /\ clock' = clock + 1
                /\ reqs' = [reqs EXCEPT ![i] =
                        Finish(r1, Response(200, [invite_link |-> r.loc.invite_link]))]
           ELSE /\ UNCHANGED <<subscribers, clock>>
                /\ reqs' = [reqs EXCEPT ![i] = Finish(r1, ClaimError(500, "db error"))]
        /\ UNCHANGED <<call, cfg, stripe_event_ledger, customers, premium_subscriptions,
                       onboarding_emails, outbox>>

ClaimNext ==
    \E i \in Slots :
        \/ \E in \in ClaimInputs : ClaimDeliver(i, in[1], in[2])
        \/ \E res \in Outcomes : ClaimLookup(i, res)
        \/ \E res \in Outcomes : ClaimInvite(i, res)
        \/ \E res \in Outcomes : ClaimUpdate(i, res)

ClaimConfigs ==
    {[Configured EXCEPT !.db = d, !.telegramBotToken = b] :
        d \in BOOLEAN, b \in {Null, "bot_token"}}

InitClaim ==
    /\ fn = "claim"
    /\ cfg \in ClaimConfigs
    /\ reqs = [i \in Slots |-> Idle]
    /\ stripe_event_ledger = {}
    /\ customers = <<>>
    /\ premium_subscriptions = <<>>
    /\ onboarding_emails = <<>>
    /\ subscribers \in ClaimTables
    /\ outbox = <<>>
    /\ clock = 0
    /\ faults = 0
    /\ call = NoCall

SpecClaim == InitClaim /\ [][ClaimNext]_vars

(***************************************************************************)
(* C39  One invite link per subscriber                                     *)
(***************************************************************************)
\* the claim requests that were answered with an invite link for subscriber id
AnsweredWithLink(id) ==
    {i \in Slots : /\ Done(i) /\ reqs[i].provider = "claim"
                   /\ reqs[i].resp.status = 200
                   /\ Did(i, "claim_update")
                   /\ reqs[i].loc.subs = id}

\* the invite links created for subscriber id
LinksIssued(id) ==
    {n \in 1..Len(outbox) :
        outbox[n].kind = "invite_link" /\ outbox[n].to = id /\ outbox[n].ok}

\* C39 as claimed: at most one invite link is ever issued per subscriber.  A
\* claim that starts after a claim of the same subscriber has succeeded is
\* answered 409, and two claims never both return an invite link for one
\* subscriber, however their lookups, invite creations and claimed_at
\* updates interleave.
C39_Claim ==
    \A k \in 1..Len(subscribers) :
        LET id == subscribers[k].id
        IN  /\ Cardinality(LinksIssued(id)) <= 1
            /\ Cardinality(AnsweredWithLink(id)) <= 1
            /\ \A i, j \in Slots :
                  (/\ j \in AnsweredWithLink(id) /\ Done(i) /\ Sequential(j, i)
                   /\ Did(i, "lookup") /\ reqs[i].resp.status # 500
                   /\ k \in ClaimMatches(reqs[i].loc.email, reqs[i].loc.purchase_id))
                      => reqs[i].resp.status = 409

====
